---- MODULE Spec2Model ----
(***************************************************************************)
(* db-mcp: the connection manager (DatabaseManager), the connection        *)
(* adapter it drives (BaseDatabaseConnection / MySQLConnection), the       *)
(* connection factory (DatabaseFactory) and the security gate              *)
(* (SecurityManager), as a state machine.                                  *)
(*                                                                         *)
(* JavaScript runs every synchronous section to completion, so one action  *)
(* is one such section: from a call or the resolution of an awaited        *)
(* promise up to the next await.  What a backend answers (a ping, a        *)
(* pool.end(), a query) is chosen by the environment.                      *)
(***************************************************************************)
EXTENDS Integers, Sequences, FiniteSets, TLC

\* ---------------------------------------------------------------- bounds
\* Number of entries of the config map handed to initialize().
NumConfigs == 2
\* Largest retryAttempts option tried (the option is drawn from 1..MaxRetryAttempts).
MaxRetryAttempts == 2
\* Calls the caller makes (switchDatabase, reconnectDatabase) plus health-check runs.
MaxOps == 1
\* query() calls the caller makes.
MaxQueries == 1

\* ------------------------------------------------------- program constants
\* DatabaseManagerOptions.retryDelay as createDatabaseManager sets it (ms).
RetryDelay == 1000
\* SecurityManager.logEvent keeps the last 1000 events.
MaxEvents == 1000

\* --------------------------------------------------------------- the ids
\* Connection ids in the order Object.entries(configs) yields them; the last
\* one is never configured (an id the caller may still name).
AllIds == <<"db1", "db2", "db3", "db4">>
ConfigIds == SubSeq(AllIds, 1, NumConfigs)
UnknownId == AllIds[NumConfigs + 1]
IdSet == {AllIds[i] : i \in 1..(NumConfigs + 1)}
ConfigIdSet == {ConfigIds[i] : i \in 1..NumConfigs}
\* currentDatabase = '' : no current connection.
NoDatabase == ""
\* The metrics key and the databaseId of rate-limit events.
GlobalId == "global"

SeqToSet(s) == {s[i] : i \in 1..Len(s)}

\* ------------------------------------------------------------ the factory
\* A DatabaseConfig with no field set: '' is an absent (or empty) string,
\* port 0 an absent port.
NoConfig ==
  [type |-> "", host |-> "", port |-> 0, user |-> "", password |-> "", database |-> "",
   file |-> "", projectUrl |-> "", anonKey |-> "", serviceKey |-> "",
   connectionString |-> "", serviceAccountKey |-> ""]

\* The configs handed to initialize(): a complete mysql config, a mysql
\* config without host, and a complete mongodb config (validated, but no
\* connector exists).
MySQLConfig ==
  [NoConfig EXCEPT !.type = "mysql", !.host = "h", !.port = 3306, !.user = "u",
                   !.password = "p", !.database = "d"]
NoHostConfig == [MySQLConfig EXCEPT !.host = ""]
MongoConfig == [MySQLConfig EXCEPT !.type = "mongodb", !.port = 27017]
ConfigChoices == {MySQLConfig, NoHostConfig, MongoConfig}

DATABASE_TYPES == {"mysql", "postgresql", "sqlite", "supabase", "planetscale", "mongodb"}

\* DEFAULT_PORTS
DEFAULT_PORTS(type) ==
  CASE type = "mysql" -> 3306
    [] type = "postgresql" -> 5432
    [] type = "sqlite" -> 0
    [] type = "supabase" -> 443
    [] type = "planetscale" -> 3306
    [] type = "mongodb" -> 27017

\* `Host is required for ${type} database`
HostRequired(type) ==
  CASE type = "mysql" -> "Host is required for mysql database"
    [] type = "postgresql" -> "Host is required for postgresql database"
    [] type = "planetscale" -> "Host is required for planetscale database"

\* `User is required for ${type} database`
UserRequired(type) ==
  CASE type = "mysql" -> "User is required for mysql database"
    [] type = "postgresql" -> "User is required for postgresql database"
    [] type = "planetscale" -> "User is required for planetscale database"

\* validateConfig that does not look at the user of a SQL-server config.
validateConfigNoUser(config) ==
  CASE config.type \in {"mysql", "postgresql", "planetscale"} ->
         IF config.host = "" THEN HostRequired(config.type) ELSE ""
    [] config.type = "sqlite" ->
         IF config.file = "" /\ config.database = ""
         THEN "File path or database name is required for SQLite database"
         ELSE ""
    [] config.type = "supabase" ->
         IF config.projectUrl = "" THEN "Project URL is required for Supabase database"
         ELSE IF config.anonKey = "" /\ config.serviceKey = ""
         THEN "Either anon key or service key is required for Supabase database"
         ELSE ""
    [] config.type = "mongodb" ->
         IF config.connectionString = "" /\ config.host = ""
         THEN "Either connection string or host is required for MongoDB database"
         ELSE ""
    [] OTHER -> "Unknown database type"

\* DatabaseFactory.validateConfig: "" when the config passes, else the
\* message of the error it throws.
validateConfig(config) ==
  CASE config.type \in {"mysql", "postgresql", "planetscale"} ->
         IF config.host = "" THEN HostRequired(config.type)
         ELSE IF config.user = "" THEN UserRequired(config.type)
         ELSE ""
    [] config.type = "sqlite" ->
         IF config.file = "" /\ config.database = ""
         THEN "File path or database name is required for SQLite database"
         ELSE ""
    [] config.type = "supabase" ->
         IF config.projectUrl = "" THEN "Project URL is required for Supabase database"
         ELSE IF config.anonKey = "" /\ config.serviceKey = ""
         THEN "Either anon key or service key is required for Supabase database"
         ELSE ""
    [] config.type = "mongodb" ->
         IF config.connectionString = "" /\ config.host = ""
         THEN "Either connection string or host is required for MongoDB database"
         ELSE ""
    [] OTHER -> "Unknown database type"

\* config.port as a validateConfig that passed leaves it: the default port
\* of the kind when the config gave none (for mongodb only without a
\* connection string).
validatedPort(config) ==
  IF config.port # 0 THEN config.port
  ELSE IF config.type \in {"mysql", "postgresql", "planetscale"} THEN DEFAULT_PORTS(config.type)
  ELSE IF config.type = "mongodb" /\ config.connectionString = "" THEN DEFAULT_PORTS(config.type)
  ELSE config.port

\* DatabaseFactory.createConnection: "" when an adapter is constructed, else
\* the message of the error it throws (without the id and the list of types
\* that two of the messages end with).
createConnection(config) ==
  IF config.type = "" THEN "Database type is required"
  ELSE IF config.type \notin DATABASE_TYPES THEN "Unsupported database type"
  ELSE IF validateConfig(config) # "" THEN validateConfig(config)
  ELSE IF config.type \in {"mysql", "postgresql", "sqlite", "supabase", "planetscale"} THEN ""
  ELSE IF config.type = "mongodb"
       THEN "MongoDB connector not yet implemented in new structure"
  ELSE "not implemented yet"

\* The class of the adapter createConnection constructs, "" when it throws.
adapterClass(config) ==
  IF createConnection(config) # "" THEN ""
  ELSE CASE config.type = "mysql" -> "MySQLConnection"
         [] config.type = "postgresql" -> "PostgreSQLConnection"
         [] config.type = "sqlite" -> "SQLiteConnection"
         [] config.type = "supabase" -> "SupabaseConnection"
         [] config.type = "planetscale" -> "MySQLConnection"

\* DatabaseFactory.getSupportedTypes
getSupportedTypes == DATABASE_TYPES

\* DatabaseFactory.isTypeSupported
isTypeSupported(type) == type \in DATABASE_TYPES

VARIABLES
  configs,          \* the config map given to initialize(): id -> config
  retryAttempts,    \* DatabaseManager.options.retryAttempts
  connections,      \* DatabaseManager.connections: the registered ids, in Map order
  currentDatabase,  \* DatabaseManager.currentDatabase
  isConnected,      \* adapter._isConnected, per id
  lastError,        \* adapter._lastError, per id (<<>> is undefined)
  pool,             \* adapter.pool is set, per id
  appName,          \* FirestoreConnection.appName, per id ("" is undefined)
  appInstances,     \* the module's appInstances map: app name -> connectionCount
  created,          \* the pools mysql.createPool returned, in order: "open" or "ended"
  poolOf,           \* which of them adapter.pool is, per id (0: not tracked or undefined)
  inFlight,         \* the overlapping calls made on one adapter and where each is
  healthTimers,     \* the intervals startHealthChecks() scheduled that are not cleared
  singleton,        \* the module's _databaseManager, the managers made for it, the calls
  initPc,           \* where initialize() is: "new", "running", "done"
  task,             \* the asynchronous operation in flight on each adapter
  calls,            \* connect() calls of the adapter's current retry sequence
  waits,            \* the delays that retry sequence slept, in order
  answers,          \* how each connect() of that retry sequence ended, in order
  ops,              \* caller operations and health-check runs so far
  lastCall,         \* the last synchronous API call and how it ended
  events,           \* SecurityManager.events
  metrics,          \* SecurityManager.metrics
  rateLimits,       \* SecurityManager.rateLimits
  now,              \* the clock (ms)
  securityConfig,   \* ConfigManager's config.security, as loadConfig read it
  q,                \* the last query() call: its arguments, where it is, how it ended
  queries           \* query() calls so far

mgrVars == <<configs, retryAttempts, connections, currentDatabase, initPc, ops, lastCall>>
poolVars == <<created, poolOf, inFlight, healthTimers, singleton>>
adapterVars == <<isConnected, lastError, pool, appName, appInstances, poolVars>>
taskVars == <<task, calls, waits, answers>>
secVars == <<events, metrics, rateLimits>>
queryVars == <<securityConfig, q, queries>>
vars == <<mgrVars, adapterVars, taskVars, secVars, now, queryVars>>

\* ------------------------------------------------------ the security gate
ZeroMetrics == [totalConnections |-> 0, failedConnections |-> 0, queryCount |-> 0,
                blockedQueries |-> 0, suspiciousActivity |-> 0, lastActivity |-> 0]

\* A SecurityEvent as logEvent stores it.
Ev(event, databaseId, severity) ==
  [timestamp |-> now, event |-> event, databaseId |-> databaseId, severity |-> severity]

\* bumpCounter without the case 'query_blocked'.
bumpCounterNoBlocked(m, event) ==
  CASE event = "connection_success" -> [m EXCEPT !.totalConnections = @ + 1]
    [] event = "connection_failed" -> [m EXCEPT !.failedConnections = @ + 1]
    [] event = "query_executed" -> [m EXCEPT !.queryCount = @ + 1]
    [] event = "suspicious_activity" -> [m EXCEPT !.suspiciousActivity = @ + 1]
    [] OTHER -> m

\* The switch of updateMetrics on one metrics record.
bumpCounter(m, event) ==
  CASE event = "connection_success" -> [m EXCEPT !.totalConnections = @ + 1]
    [] event = "connection_failed" -> [m EXCEPT !.failedConnections = @ + 1]
    [] event = "query_executed" -> [m EXCEPT !.queryCount = @ + 1]
    [] event = "query_blocked" -> [m EXCEPT !.blockedQueries = @ + 1]
    [] event = "suspicious_activity" -> [m EXCEPT !.suspiciousActivity = @ + 1]
    [] OTHER -> m

\* SecurityManager.updateMetrics on the metrics map ms.  dbMetrics and
\* globalMetrics are one object when databaseId is 'global'.
updateMetrics(ms, databaseId, event) ==
  LET dbMetrics == IF databaseId \in DOMAIN ms THEN ms[databaseId] ELSE ZeroMetrics
      m1 == (databaseId :> [bumpCounter(dbMetrics, event) EXCEPT !.lastActivity = now]) @@ ms
  IN [m1 EXCEPT ![GlobalId] = [bumpCounter(@, event) EXCEPT !.lastActivity = now]]

\* pushEvent that keeps the first MaxEvents (slice(0, 1000)).
pushEventKeepFirst(evs, ev) ==
  LET pushed == Append(evs, ev)
  IN IF Len(pushed) > MaxEvents THEN SubSeq(pushed, 1, MaxEvents) ELSE pushed

\* SecurityManager.logEvent on the log: push, then keep the last MaxEvents.
pushEvent(evs, ev) ==
  LET pushed == Append(evs, ev)
  IN IF Len(pushed) > MaxEvents
     THEN SubSeq(pushed, Len(pushed) - MaxEvents + 1, Len(pushed))
     ELSE pushed

\* logEvent called for each event of the sequence log, in order, on the
\* security state sec = [events, metrics].
RECURSIVE logEvents(_, _)
logEvents(sec, log) ==
  IF log = <<>> THEN sec
  ELSE logEvents([events |-> pushEvent(sec.events, Head(log)),
                  metrics |-> updateMetrics(sec.metrics, Head(log).databaseId, Head(log).event)],
                 Tail(log))

LogAll(log) ==
  LET sec == logEvents([events |-> events, metrics |-> metrics], log)
  IN /\ events' = sec.events
     /\ metrics' = sec.metrics

\* ------------------------------------------------- statements and the gate
\* A statement is its text as the sequence of its tokens (words and
\* punctuation, in the case written) with its length in characters.
SelectPlain == [toks |-> <<"SELECT", "*", "FROM", "users", "WHERE", "id", "=", "?">>, length |-> 32]
UnionSelect == [toks |-> <<"SELECT", "*", "FROM", "users", "union", "select", "password",
                           "FROM", "admins">>, length |-> 52]
DropTable == [toks |-> <<"DROP", "TABLE", "users">>, length |-> 16]
InsertRow == [toks |-> <<"insert", "INTO", "users", "VALUES", "(", "?", ")">>, length |-> 28]
TruncateTable == [toks |-> <<"TRUNCATE", "TABLE", "users">>, length |-> 20]
TwoSelects == [toks |-> <<"SELECT", "1", ";", "SELECT", "2">>, length |-> 18]
Oversized == [toks |-> <<"SELECT", "1">>, length |-> 10001]
Statements == {SelectPlain, UnionSelect, DropTable, InsertRow, TruncateTable, TwoSelects,
               Oversized}

\* String.toUpperCase / the i flag of a RegExp, on the lower-case tokens used.
UpperOf ==
  ("insert" :> "INSERT") @@ ("union" :> "UNION") @@ ("select" :> "SELECT") @@
  ("delete" :> "DELETE") @@ ("from" :> "FROM") @@ ("sleep" :> "SLEEP") @@ ("Drop" :> "DROP")
Upper(tok) == IF tok \in DOMAIN UpperOf THEN UpperOf[tok] ELSE tok

\* Token i of toks is word, case-insensitively.
IsAt(toks, i, word) == i \in 1..Len(toks) /\ Upper(toks[i]) = word

\* SecurityManager.suspiciousPatterns, in order, matched on tokens: the
\* source of the first pattern that matches, "" when none does.
suspiciousPattern(toks) ==
  LET n == Len(toks)
  IN CASE \E i \in 1..n, j \in 1..n : i < j /\ IsAt(toks, i, "UNION") /\ IsAt(toks, j, "SELECT") ->
            "union.*select"
       [] \E i \in 1..n : IsAt(toks, i, ";") /\ IsAt(toks, i + 1, "DROP") /\ i + 2 <= n ->
            ";\\s*drop\\s+"
       [] \E i \in 1..n : IsAt(toks, i, ";") /\ IsAt(toks, i + 1, "DELETE") /\ IsAt(toks, i + 2, "FROM") ->
            ";\\s*delete\\s+from"
       [] \E i \in 1..n, j \in 1..n :
            i + 1 < j /\ IsAt(toks, i, ";") /\ IsAt(toks, i + 1, "UPDATE") /\ IsAt(toks, j, "SET") ->
            ";\\s*update.*set"
       [] \E i \in 1..n : IsAt(toks, i, "LOAD_FILE") /\ IsAt(toks, i + 1, "(") -> "load_file\\s*\\("
       [] \E i \in 1..n : IsAt(toks, i, "INTO") /\ IsAt(toks, i + 1, "OUTFILE") -> "into\\s+outfile"
       [] \E i \in 1..n : IsAt(toks, i, "BENCHMARK") /\ IsAt(toks, i + 1, "(") -> "benchmark\\s*\\("
       [] \E i \in 1..n : IsAt(toks, i, "SLEEP") /\ IsAt(toks, i + 1, "(") -> "sleep\\s*\\("
       [] OTHER -> ""

\* query.trim().split(';').filter(s => s.trim()).length: the number of
\* non-empty segments between semicolons.
statementCount(toks) ==
  Cardinality({i \in 1..Len(toks) : toks[i] # ";" /\ (i = 1 \/ toks[i - 1] = ";")})

\* The longest statement validateQuery accepts (characters).
MaxQueryLength == 10000

\* validateQuery that rejects a statement of exactly MaxQueryLength
\* characters (query.length >= 10000).
validateQueryAtCeiling(query, databaseId) ==
  IF suspiciousPattern(query.toks) # ""
  THEN [isValid |-> FALSE, reason |-> "Suspicious SQL pattern detected",
        log |-> <<Ev("suspicious_query_detected", databaseId, "warning")>>]
  ELSE IF query.length >= MaxQueryLength
  THEN [isValid |-> FALSE, reason |-> "Query too long",
        log |-> <<Ev("oversized_query", databaseId, "warning")>>]
  ELSE IF (\E i \in 1..Len(query.toks) : query.toks[i] = ";") /\ statementCount(query.toks) > 1
  THEN [isValid |-> TRUE, reason |-> "",
        log |-> <<Ev("multiple_statements_detected", databaseId, "info")>>]
  ELSE [isValid |-> TRUE, reason |-> "", log |-> <<>>]

\* validateQuery that also rejects every statement for a databaseId the log
\* holds a suspicious_query_detected event of.
validateQueryByHistory(query, databaseId) ==
  IF \/ suspiciousPattern(query.toks) # ""
     \/ \E i \in 1..Len(events) :
          events[i].event = "suspicious_query_detected" /\ events[i].databaseId = databaseId
  THEN [isValid |-> FALSE, reason |-> "Suspicious SQL pattern detected",
        log |-> <<Ev("suspicious_query_detected", databaseId, "warning")>>]
  ELSE IF query.length > MaxQueryLength
  THEN [isValid |-> FALSE, reason |-> "Query too long",
        log |-> <<Ev("oversized_query", databaseId, "warning")>>]
  ELSE IF (\E i \in 1..Len(query.toks) : query.toks[i] = ";") /\ statementCount(query.toks) > 1
  THEN [isValid |-> TRUE, reason |-> "",
        log |-> <<Ev("multiple_statements_detected", databaseId, "info")>>]
  ELSE [isValid |-> TRUE, reason |-> "", log |-> <<>>]

\* SecurityManager.validateQuery(query, databaseId): the verdict and the
\* events it logs, in order.
validateQuery(query, databaseId) ==
  IF suspiciousPattern(query.toks) # ""
  THEN [isValid |-> FALSE, reason |-> "Suspicious SQL pattern detected",
        log |-> <<Ev("suspicious_query_detected", databaseId, "warning")>>]
  ELSE IF query.length > MaxQueryLength
  THEN [isValid |-> FALSE, reason |-> "Query too long",
        log |-> <<Ev("oversized_query", databaseId, "warning")>>]
  ELSE IF (\E i \in 1..Len(query.toks) : query.toks[i] = ";") /\ statementCount(query.toks) > 1
  THEN [isValid |-> TRUE, reason |-> "",
        log |-> <<Ev("multiple_statements_detected", databaseId, "info")>>]
  ELSE [isValid |-> TRUE, reason |-> "", log |-> <<>>]

\* checkRateLimit's default maxRequests and windowMs.
RateLimitMax == 100
RateLimitWindow == 60000

\* checkRateLimitWith that admits one call more than maxRequests.
checkRateLimitOffByOne(limits, identifier, maxRequests, windowMs) ==
  IF identifier \notin DOMAIN limits
     \/ now - limits[identifier].lastReset > windowMs
  THEN [ok |-> TRUE, limits |-> (identifier :> [count |-> 1, lastReset |-> now]) @@ limits,
        log |-> <<>>]
  ELSE IF limits[identifier].count > maxRequests
  THEN [ok |-> FALSE, limits |-> limits,
        log |-> <<Ev("rate_limit_exceeded", GlobalId, "warning")>>]
  ELSE [ok |-> TRUE, limits |-> [limits EXCEPT ![identifier].count = @ + 1], log |-> <<>>]

\* SecurityManager.checkRateLimit(identifier, maxRequests, windowMs) on the
\* map limits: whether the call is admitted, the map afterwards and the
\* events logged.
checkRateLimitWith(limits, identifier, maxRequests, windowMs) ==
  IF identifier \notin DOMAIN limits
     \/ now - limits[identifier].lastReset > windowMs
  THEN [ok |-> TRUE, limits |-> (identifier :> [count |-> 1, lastReset |-> now]) @@ limits,
        log |-> <<>>]
  ELSE IF limits[identifier].count >= maxRequests
  THEN [ok |-> FALSE, limits |-> limits,
        log |-> <<Ev("rate_limit_exceeded", GlobalId, "warning")>>]
  ELSE [ok |-> TRUE, limits |-> [limits EXCEPT ![identifier].count = @ + 1], log |-> <<>>]

\* checkRateLimit that rejects without logging rate_limit_exceeded.
checkRateLimitSilent(limits, identifier) ==
  IF identifier \notin DOMAIN limits
     \/ now - limits[identifier].lastReset > RateLimitWindow
  THEN [ok |-> TRUE, limits |-> (identifier :> [count |-> 1, lastReset |-> now]) @@ limits,
        log |-> <<>>]
  ELSE IF limits[identifier].count >= RateLimitMax
  THEN [ok |-> FALSE, limits |-> limits, log |-> <<>>]
  ELSE [ok |-> TRUE, limits |-> [limits EXCEPT ![identifier].count = @ + 1], log |-> <<>>]

\* checkRateLimit(identifier) with the default maxRequests and windowMs.
checkRateLimit(limits, identifier) ==
  checkRateLimitWith(limits, identifier, RateLimitMax, RateLimitWindow)

\* The security config ConfigManager.loadConfig builds when the environment
\* sets nothing, and the ones tried besides.
DefaultSecurityConfig ==
  [maxQueryResults |-> 1000, allowDataModification |-> TRUE, allowDrop |-> FALSE,
   allowTruncate |-> FALSE, readOnlyMode |-> FALSE]
SecurityConfigChoices ==
  {DefaultSecurityConfig,
   [DefaultSecurityConfig EXCEPT !.readOnlyMode = TRUE],
   [DefaultSecurityConfig EXCEPT !.maxQueryResults = 2, !.allowDataModification = FALSE]}

\* The securityConfig literal of DatabaseManager.query.
querySecurityConfig ==
  [maxQueryResults |-> 1000, allowDataModification |-> TRUE, allowDrop |-> FALSE,
   allowTruncate |-> FALSE, readOnlyMode |-> FALSE]

\* The row counts a backend answers with.
RowCounts == {3, querySecurityConfig.maxQueryResults, querySecurityConfig.maxQueryResults + 1}

\* The QueryResult an adapter returns for a result set of n rows (row i is i).
backendResult(n) == [results |-> [i \in 1..n |-> i], fields |-> <<"id">>]

\* "Apply result limits" of DatabaseManager.query.
applyResultLimits(result, maxQueryResults) ==
  IF Len(result.results) > maxQueryResults
  THEN [result EXCEPT !.results = SubSeq(result.results, 1, maxQueryResults)]
  ELSE result

NoQuery ==
  [sql |-> SelectPlain, id |-> NoDatabase, target |-> NoDatabase, stage |-> "none",
   error |-> "", trace |-> <<>>, rows |-> 0, result |-> backendResult(0)]

\* ------------------------------------------------------------ the adapter
\* What one synchronous section does to one adapter and to the manager's
\* operation on it: ic/le/pool are the adapter's _isConnected, _lastError and
\* pool; task is the operation in flight; log the events it logs, in order.
Idle == [kind |-> "none", pc |-> "idle", attempt |-> 0]
NoError == <<>>

Local(c) ==
  [ic |-> isConnected[c], le |-> lastError[c], pool |-> pool[c], task |-> task[c],
   calls |-> calls[c], waits |-> waits[c], answers |-> answers[c], log |-> <<>>]

\* BaseDatabaseConnection.setConnected
setConnected(L, connected, error) ==
  [L EXCEPT !.ic = connected, !.le = IF connected THEN NoError ELSE error]

\* BaseDatabaseConnection.logError
logError(L, error) == [L EXCEPT !.le = error]

\* ------------------------------------------------------------ the manager
\* settle logging the kinds updateMetrics counts: connection_success and
\* connection_failed.
settleCounted(L, c, ok) ==
  [L EXCEPT !.task = Idle,
            !.log = Append(@, IF ok THEN Ev("connection_success", c, "info")
                               ELSE Ev("connection_failed", c, "error"))]

\* connectWithRetry has returned (ok) or thrown (~ok) to initializeConnection
\* or to reconnectDatabase, which logs the outcome and settles.
settle(L, c, ok) ==
  LET ev == IF L.task.kind = "init"
            THEN IF ok THEN Ev("connection_initialized", c, "info")
                 ELSE Ev("connection_initialization_failed", c, "error")
            ELSE IF ok THEN Ev("connection_reconnected", c, "info")
                 ELSE Ev("connection_reconnect_failed", c, "error")
  IN [L EXCEPT !.task = Idle, !.log = Append(@, ev)]

\* One iteration of connectWithRetry's loop up to its first await:
\* connection.connect() is called, which first ends a pool it still holds
\* (await this.disconnect()) and otherwise creates the pool and pings.
connectAttempt(L, c, attempt) ==
  IF attempt > retryAttempts
  THEN settle(L, c, FALSE)
  ELSE IF L.pool
       THEN [L EXCEPT !.calls = @ + 1, !.task.attempt = attempt, !.task.pc = "disc"]
       ELSE [L EXCEPT !.calls = @ + 1, !.task.attempt = attempt, !.task.pc = "ping",
                      !.pool = TRUE]

\* attemptFailed with the loop bound off by one: a wait follows the last
\* attempt too.
attemptFailedOffByOne(L, c, error) ==
  LET L1 == [setConnected(logError(L, error), FALSE, error)
               EXCEPT !.answers = Append(@, FALSE)]
  IN IF L1.task.attempt <= retryAttempts
     THEN [L1 EXCEPT !.task.pc = "wait",
                     !.waits = Append(@, RetryDelay * L1.task.attempt)]
     ELSE settle(L1, c, FALSE)

\* connect() threw error: its catch records it, connectWithRetry's catch
\* sleeps retryDelay * attempt before the next attempt, or gives up.
attemptFailed(L, c, error) ==
  LET L1 == [setConnected(logError(L, error), FALSE, error)
               EXCEPT !.answers = Append(@, FALSE)]
  IN IF L1.task.attempt < retryAttempts
     THEN [L1 EXCEPT !.task.pc = "wait",
                     !.waits = Append(@, RetryDelay * L1.task.attempt)]
     ELSE settle(L1, c, FALSE)

\* The adapter's and operation's variables after a section that left c as
\* L, its appName as name and the appInstances map as apps.
ApplyWith(c, L, name, apps) ==
  /\ isConnected' = [isConnected EXCEPT ![c] = L.ic]
  /\ lastError' = [lastError EXCEPT ![c] = L.le]
  /\ pool' = [pool EXCEPT ![c] = L.pool]
  /\ task' = [task EXCEPT ![c] = L.task]
  /\ calls' = [calls EXCEPT ![c] = L.calls]
  /\ waits' = [waits EXCEPT ![c] = L.waits]
  /\ answers' = [answers EXCEPT ![c] = L.answers]
  /\ appName' = [appName EXCEPT ![c] = name]
  /\ appInstances' = apps
  /\ UNCHANGED poolVars
  /\ LogAll(L.log)

\* The same for a section of an adapter that is no FirestoreConnection.
Apply(c, L) == ApplyWith(c, L, appName[c], appInstances)

\* Concatenation of the logs of the sections run for ids[1], ids[2], ...
RECURSIVE logsOf(_, _)
logsOf(F, ids) == IF ids = <<>> THEN <<>> ELSE F[Head(ids)].log \o logsOf(F, Tail(ids))

\* The variables after one synchronous section that ran, for the adapters of
\* ids in that order, the sections whose results are F[c].
ApplyAll(F, ids) ==
  LET touched == SeqToSet(ids)
  IN /\ isConnected' = [c \in ConfigIdSet |-> IF c \in touched THEN F[c].ic ELSE isConnected[c]]
     /\ lastError' = [c \in ConfigIdSet |-> IF c \in touched THEN F[c].le ELSE lastError[c]]
     /\ pool' = [c \in ConfigIdSet |-> IF c \in touched THEN F[c].pool ELSE pool[c]]
     /\ task' = [c \in ConfigIdSet |-> IF c \in touched THEN F[c].task ELSE task[c]]
     /\ calls' = [c \in ConfigIdSet |-> IF c \in touched THEN F[c].calls ELSE calls[c]]
     /\ waits' = [c \in ConfigIdSet |-> IF c \in touched THEN F[c].waits ELSE waits[c]]
     /\ answers' = [c \in ConfigIdSet |-> IF c \in touched THEN F[c].answers ELSE answers[c]]
     /\ UNCHANGED <<appName, appInstances, poolVars>>
     /\ LogAll(logsOf(F, ids))

\* A retry sequence starts: connectWithRetry(connection) is entered.
connectWithRetry(L, c, kind) ==
  connectAttempt([L EXCEPT !.task = [kind |-> kind, pc |-> "idle", attempt |-> 0],
                           !.calls = 0, !.waits = <<>>, !.answers = <<>>], c, 1)

\* initializeConnection(id, config) up to its first await: the factory
\* builds the adapter or throws; a built adapter is registered and its
\* first connect() is under way.
initializeConnection(c) ==
  IF createConnection(configs[c]) = ""
  THEN connectWithRetry(Local(c), c, "init")
  ELSE [Local(c) EXCEPT !.log = <<Ev("connection_initialization_failed", c, "error")>>]

\* registeredBy with connections.set done before the factory is called.
registeredBeforeFactory(ids) == ids

\* The ids initializeConnection registers (connections.set), in order.
registeredBy(ids) == SelectSeq(ids, LAMBDA c : createConnection(configs[c]) = "")

\* connectedIds without the isConnected filter.
connectedIdsUnfiltered == connections

\* The ids of connections whose adapter reports connected, in Map order.
connectedIds == SelectSeq(connections, LAMBDA c : isConnected[c])

Registered == SeqToSet(connections)

\* The module of getDatabaseManager as loaded: _databaseManager is null (0),
\* no manager was made, no call of getDatabaseManager() or close() was made.
NoSingleton == [databaseManager |-> 0, managers |-> <<>>, calls |-> <<>>, closes |-> 0]

\* DatabaseManager.options.healthCheckInterval (ms) as createDatabaseManager
\* sets it, which is the constructor's default too.
HealthCheckInterval == 300000

\* startHealthChecks() with timers intervals scheduled: setInterval is
\* called when the interval is positive; its handle is not kept.
startHealthChecks(timers) == IF HealthCheckInterval > 0 THEN timers + 1 ELSE timers

\* A DatabaseManager as its constructor leaves it, for a config map drawn
\* from choices and handed to initialize(), with no call in progress.
ManagerConstructedWith(choices) ==
  /\ configs \in [ConfigIdSet -> choices]
  /\ connections = <<>>
  /\ currentDatabase = NoDatabase
  /\ isConnected = [c \in ConfigIdSet |-> FALSE]
  /\ lastError = [c \in ConfigIdSet |-> NoError]
  /\ pool = [c \in ConfigIdSet |-> FALSE]
  /\ appName = [c \in ConfigIdSet |-> ""]
  /\ appInstances = <<>>
  /\ created = <<>>
  /\ poolOf = [c \in ConfigIdSet |-> 0]
  /\ inFlight = <<>>
  /\ healthTimers = 0
  /\ singleton = NoSingleton
  /\ initPc = "new"
  /\ task = [c \in ConfigIdSet |-> Idle]
  /\ calls = [c \in ConfigIdSet |-> 0]
  /\ waits = [c \in ConfigIdSet |-> <<>>]
  /\ answers = [c \in ConfigIdSet |-> <<>>]
  /\ ops = 0
  /\ lastCall = [op |-> "none", id |-> NoDatabase, result |-> "none"]
  /\ q = NoQuery
  /\ queries = 0

ManagerConstructed == ManagerConstructedWith(ConfigChoices)

\* A securityManager just constructed, at time 0.
GateConstructed ==
  /\ events = <<>>
  /\ metrics = (GlobalId :> ZeroMetrics)
  /\ now = 0

\* The manager beside a securityManager just constructed, at time 0.
Constructed == ManagerConstructed /\ GateConstructed

Init ==
  /\ Constructed
  /\ retryAttempts \in 0..MaxRetryAttempts
  /\ rateLimits = <<>>
  /\ securityConfig = DefaultSecurityConfig

\* initialize(configs), up to await Promise.allSettled(initPromises).
Initialize ==
  /\ initPc = "new"
  /\ LET F == [c \in ConfigIdSet |-> initializeConnection(c)]
     IN ApplyAll(F, ConfigIds)
  /\ connections' = connections \o registeredBy(ConfigIds)
  /\ initPc' = "running"
  /\ UNCHANGED <<configs, retryAttempts, currentDatabase, ops, lastCall, rateLimits, now,
                 queryVars>>

\* initialize() after Promise.allSettled: every initializeConnection has
\* settled; the default database is chosen and the health checks start.
InitializeFinish ==
  /\ initPc = "running"
  /\ \A c \in ConfigIdSet : task[c].kind # "init"
  /\ currentDatabase' = IF connectedIds = <<>> THEN NoDatabase ELSE connectedIds[1]
  /\ healthTimers' = startHealthChecks(healthTimers)
  /\ initPc' = "done"
  /\ UNCHANGED <<configs, retryAttempts, connections, ops, lastCall>>
  /\ UNCHANGED <<isConnected, lastError, pool, appName, appInstances, created, poolOf, inFlight,
                 singleton>>
  /\ UNCHANGED <<taskVars, secVars, now, queryVars>>

\* connect() of a retry: the pool.end() of the pool the failed attempt left
\* has resolved (disconnect() clears the pool and the state, connect() goes
\* on to create a pool and ping) or rejected (connect() throws).
ConnectPoolEnd(c, ok) ==
  /\ task[c].pc = "disc"
  /\ LET L == Local(c)
     IN Apply(c, IF ok
                 THEN [setConnected([L EXCEPT !.pool = FALSE], FALSE, NoError)
                         EXCEPT !.pool = TRUE, !.task.pc = "ping"]
                 ELSE attemptFailed(L, c, <<"pool.end", L.task.attempt>>))
  /\ UNCHANGED <<mgrVars, rateLimits, now, queryVars>>

\* connect(): the ping on the new pool has resolved (connected, and
\* connectWithRetry returns) or rejected (connect() throws).
ConnectPing(c, ok) ==
  /\ task[c].pc = "ping"
  /\ LET L == Local(c)
     IN Apply(c, IF ok
                 THEN settle(setConnected([L EXCEPT !.answers = Append(@, TRUE)], TRUE, NoError),
                             c, TRUE)
                 ELSE attemptFailed(L, c, <<"connect", L.task.attempt>>))
  /\ UNCHANGED <<mgrVars, rateLimits, now, queryVars>>

\* connectWithRetry: the delay after a failed attempt has elapsed.
RetryTimer(c) ==
  /\ task[c].pc = "wait"
  /\ Apply(c, connectAttempt(Local(c), c, task[c].attempt + 1))
  /\ UNCHANGED <<mgrVars, rateLimits, now, queryVars>>

\* reconnectDatabase(id) for a registered id, up to its first await:
\* connection.disconnect() ends the pool, or, with no pool, only marks the
\* adapter disconnected and the retry sequence starts.
reconnectDatabase(L, c) ==
  IF L.pool
  THEN [L EXCEPT !.task = [kind |-> "reconnect", pc |-> "rdisc", attempt |-> 0]]
  ELSE connectWithRetry(setConnected(L, FALSE, NoError), c, "reconnect")

\* reconnectDatabase: the pool.end() of disconnect() has resolved (the retry
\* sequence starts) or rejected (disconnect() records the error and throws;
\* reconnectDatabase logs the failure and returns false).
ReconnectPoolEnd(c, ok) ==
  /\ task[c].pc = "rdisc"
  /\ LET L == Local(c)
     IN Apply(c, IF ok
                 THEN connectWithRetry(setConnected([L EXCEPT !.pool = FALSE], FALSE, NoError),
                                       c, "reconnect")
                 ELSE settle(logError(L, <<"pool.end", 0>>), c, FALSE))
  /\ UNCHANGED <<mgrVars, rateLimits, now, queryVars>>

\* The caller calls reconnectDatabase(id).  Callers get the manager from
\* getDatabaseManager(), which hands it out once initialize() has resolved.
ReconnectDatabase(id) ==
  /\ initPc = "done"
  /\ ops < MaxOps
  /\ ops' = ops + 1
  /\ IF id \notin Registered
     THEN /\ lastCall' = [op |-> "reconnect", id |-> id, result |-> "NotFound"]
          /\ UNCHANGED <<adapterVars, taskVars, events, metrics>>
     ELSE /\ task[id] = Idle
          /\ lastCall' = [op |-> "reconnect", id |-> id, result |-> "started"]
          /\ Apply(id, reconnectDatabase(Local(id), id))
  /\ UNCHANGED <<configs, retryAttempts, connections, currentDatabase, initPc, rateLimits, now,
                 queryVars>>

\* performHealthChecks, after connection.testConnection() returned isHealthy.
afterProbe(L, c, isHealthy) ==
  IF ~isHealthy /\ L.ic
  THEN reconnectDatabase(L, c)
  ELSE [L EXCEPT !.task = Idle]

\* MySQLConnection.testConnection after its ping resolved (ok) or rejected.
testConnection(L, ok) ==
  IF ok
  THEN setConnected(L, TRUE, NoError)
  ELSE setConnected(logError(L, <<"probe", 0>>), FALSE, <<"probe", 0>>)

\* The health check of one connection up to its first await: with no pool
\* testConnection() returns false at once, else it pings.
healthCheck(c) ==
  IF ~pool[c]
  THEN afterProbe(Local(c), c, FALSE)
  ELSE [Local(c) EXCEPT !.task = [kind |-> "health", pc |-> "probe", attempt |-> 0]]

\* PerformHealthChecks probing one connection after the other: the run
\* awaits the first connection's check before it starts the next one.
PerformHealthChecksSequential ==
  /\ initPc = "done"
  /\ ops < MaxOps
  /\ \A c \in ConfigIdSet : task[c] = Idle
  /\ ops' = ops + 1
  /\ LET first == IF connections = <<>> THEN <<>> ELSE <<connections[1]>>
         F == [c \in SeqToSet(first) |-> healthCheck(c)]
     IN ApplyAll(F, first)
  /\ UNCHANGED <<configs, retryAttempts, connections, currentDatabase, initPc, lastCall,
                 rateLimits, now, queryVars>>

\* The health-check timer fires: performHealthChecks probes every registered
\* connection.
PerformHealthChecks ==
  /\ initPc = "done"
  /\ ops < MaxOps
  /\ \A c \in ConfigIdSet : task[c] = Idle
  /\ ops' = ops + 1
  /\ LET F == [c \in Registered |-> healthCheck(c)]
     IN ApplyAll(F, connections)
  /\ UNCHANGED <<configs, retryAttempts, connections, currentDatabase, initPc, lastCall,
                 rateLimits, now, queryVars>>

\* The ping of a health check's testConnection() has resolved or rejected.
HealthProbe(c, ok) ==
  /\ task[c].pc = "probe"
  /\ Apply(c, afterProbe(testConnection(Local(c), ok), c, ok))
  /\ UNCHANGED <<mgrVars, rateLimits, now, queryVars>>

\* switchResult without the isConnected check.
switchResultUnchecked(id) ==
  IF id \notin Registered THEN "NotFound" ELSE "ok"

\* How switchDatabase(databaseId) ends.
switchResult(id) ==
  IF id \notin Registered THEN "NotFound"
  ELSE IF ~isConnected[id] THEN "Inactive"
  ELSE "ok"

\* The caller calls switchDatabase(id).
SwitchDatabase(id) ==
  /\ initPc = "done"
  /\ ops < MaxOps
  /\ ops' = ops + 1
  /\ lastCall' = [op |-> "switch", id |-> id, result |-> switchResult(id)]
  /\ IF switchResult(id) = "ok"
     THEN /\ currentDatabase' = id
          /\ LogAll(<<Ev("database_switched", id, "info")>>)
     ELSE UNCHANGED <<currentDatabase, events, metrics>>
  /\ UNCHANGED <<configs, retryAttempts, connections, initPc>>
  /\ UNCHANGED <<adapterVars, taskVars, rateLimits, now, queryVars>>

\* -------------------------------------------------------------- query()
\* getConnection without the check of connection.isConnected.
getConnectionAnyState(databaseId) ==
  LET targetId == IF databaseId # NoDatabase THEN databaseId ELSE currentDatabase
  IN IF targetId = NoDatabase THEN "NoCurrent"
     ELSE IF targetId \notin Registered THEN "NotFound"
     ELSE "ok"

\* DatabaseManager.getConnection(databaseId): "ok" when it returns the
\* connection, else the error it throws.
getConnection(databaseId) ==
  LET targetId == IF databaseId # NoDatabase THEN databaseId ELSE currentDatabase
  IN IF targetId = NoDatabase THEN "NoCurrent"
     ELSE IF targetId \notin Registered THEN "NotFound"
     ELSE IF ~isConnected[targetId] THEN "Inactive"
     ELSE "ok"

\* securityChecks with the rate limit consulted before validation.
securityChecksRateFirst(sql, targetId) ==
  LET v == validateQuery(sql, targetId)
      r == checkRateLimit(rateLimits, targetId)
  IN IF ~r.ok
     THEN [verdict |-> "RateLimited", trace |-> <<<<"checkRateLimit", FALSE>>>>,
           log |-> r.log, limits |-> r.limits]
     ELSE IF ~v.isValid
     THEN [verdict |-> "Blocked",
           trace |-> <<<<"checkRateLimit", TRUE>>, <<"validateQuery", FALSE>>>>,
           log |-> r.log \o v.log \o <<Ev("query_blocked", targetId, "warning")>>,
           limits |-> r.limits]
     ELSE [verdict |-> "ok",
           trace |-> <<<<"checkRateLimit", TRUE>>, <<"validateQuery", TRUE>>>>,
           log |-> r.log \o v.log, limits |-> r.limits]

\* The security checks of query(): validateQuery, then checkRateLimit.  The
\* verdict, what was consulted with which answer (trace), the events logged
\* and the rate-limit map afterwards.
securityChecks(sql, targetId) ==
  LET v == validateQuery(sql, targetId)
      r == checkRateLimit(rateLimits, targetId)
  IN IF ~v.isValid
     THEN [verdict |-> "Blocked", trace |-> <<<<"validateQuery", FALSE>>>>,
           log |-> v.log \o <<Ev("query_blocked", targetId, "warning")>>,
           limits |-> rateLimits]
     ELSE IF ~r.ok
     THEN [verdict |-> "RateLimited",
           trace |-> <<<<"validateQuery", TRUE>>, <<"checkRateLimit", FALSE>>>>,
           log |-> v.log \o r.log, limits |-> r.limits]
     ELSE [verdict |-> "ok",
           trace |-> <<<<"validateQuery", TRUE>>, <<"checkRateLimit", TRUE>>>>,
           log |-> v.log \o r.log, limits |-> r.limits]

\* The caller calls query(sql, params, databaseId), up to the await of
\* connection.query(): the target is resolved, the statement passes the
\* security checks and is handed to the adapter, which throws at once when
\* it holds no pool.
Query(sql, id) ==
  /\ initPc = "done"
  /\ queries < MaxQueries
  /\ q.stage # "adapter"
  /\ queries' = queries + 1
  /\ LET targetId == IF id # NoDatabase THEN id ELSE currentDatabase
         call == [NoQuery EXCEPT !.sql = sql, !.id = id, !.target = targetId]
     IN IF getConnection(id) # "ok"
        THEN /\ q' = [call EXCEPT !.stage = "threw", !.error = getConnection(id)]
             /\ UNCHANGED secVars
        ELSE LET g == securityChecks(sql, targetId)
             IN /\ rateLimits' = g.limits
                /\ IF g.verdict # "ok"
                   THEN /\ q' = [call EXCEPT !.stage = "threw", !.error = g.verdict,
                                             !.trace = g.trace]
                        /\ LogAll(g.log)
                   ELSE IF ~pool[targetId]
                   THEN /\ q' = [call EXCEPT !.stage = "threw", !.error = "AdapterError",
                                             !.trace = Append(g.trace, <<"adapter.query", FALSE>>)]
                        /\ LogAll(Append(g.log, Ev("query_failed", targetId, "error")))
                   ELSE /\ q' = [call EXCEPT !.stage = "adapter",
                                             !.trace = Append(g.trace, <<"adapter.query", TRUE>>)]
                        /\ LogAll(g.log)
  /\ UNCHANGED <<mgrVars, adapterVars, taskVars, now, securityConfig>>

\* The backend answered the statement with n rows: query() truncates, logs
\* and returns.
QueryReply(n) ==
  /\ q.stage = "adapter"
  /\ q' = [q EXCEPT !.stage = "returned", !.rows = n,
                    !.result = applyResultLimits(backendResult(n),
                                                 querySecurityConfig.maxQueryResults)]
  /\ LogAll(<<Ev("query_executed", q.target, "info")>>)
  /\ UNCHANGED <<mgrVars, adapterVars, taskVars, rateLimits, now, securityConfig, queries>>

\* QueryError without the logEvent of the catch.
QueryErrorUnlogged ==
  /\ q.stage = "adapter"
  /\ q' = [q EXCEPT !.stage = "threw", !.error = "AdapterError"]
  /\ lastError' = [lastError EXCEPT ![q.target] = <<"query", 0>>]
  /\ UNCHANGED <<mgrVars, isConnected, pool, appName, appInstances, poolVars, taskVars,
                 secVars, now, securityConfig, queries>>

\* The backend rejected the statement: the adapter records the error and
\* throws it, query() logs it and throws it on.
QueryError ==
  /\ q.stage = "adapter"
  /\ q' = [q EXCEPT !.stage = "threw", !.error = "AdapterError"]
  /\ lastError' = [lastError EXCEPT ![q.target] = <<"query", 0>>]
  /\ LogAll(<<Ev("query_failed", q.target, "error")>>)
  /\ UNCHANGED <<mgrVars, isConnected, pool, appName, appInstances, poolVars, taskVars,
                 rateLimits, now, securityConfig, queries>>


Next ==
  \/ Initialize
  \/ InitializeFinish
  \/ \E c \in ConfigIdSet, ok \in BOOLEAN : ConnectPoolEnd(c, ok)
  \/ \E c \in ConfigIdSet, ok \in BOOLEAN : ConnectPing(c, ok)
  \/ \E c \in ConfigIdSet : RetryTimer(c)
  \/ \E c \in ConfigIdSet, ok \in BOOLEAN : ReconnectPoolEnd(c, ok)
  \/ \E id \in IdSet : ReconnectDatabase(id)
  \/ PerformHealthChecks
  \/ \E c \in ConfigIdSet, ok \in BOOLEAN : HealthProbe(c, ok)
  \/ \E id \in IdSet : SwitchDatabase(id)

Spec == Init /\ [][Next]_vars

\* The securityManager singleton outlives a DatabaseManager (close(), then a
\* new manager): the rate-limit counters a new manager finds are those of the
\* calls made before, here none or RateLimitMax per id in the window that
\* started at 0.
PriorRateLimits ==
  {<<>>, [c \in ConfigIdSet |-> [count |-> RateLimitMax, lastReset |-> 0]]}

\* Queries on a manager built with retryAttempts 1 for MySQL configs.
InitQuery ==
  /\ Constructed
  /\ configs = [c \in ConfigIdSet |-> MySQLConfig]
  /\ retryAttempts = 1
  /\ rateLimits \in PriorRateLimits
  /\ securityConfig \in SecurityConfigChoices

NextQuery ==
  \/ Initialize
  \/ InitializeFinish
  \/ \E c \in ConfigIdSet, ok \in BOOLEAN : ConnectPing(c, ok)
  \/ \E sql \in Statements, id \in IdSet \cup {NoDatabase} : Query(sql, id)
  \/ \E n \in RowCounts : QueryReply(n)
  \/ QueryError

SpecQuery == InitQuery /\ [][NextQuery]_vars

\* ------------------------------------------------------------------ claims

\* C1: whenever the testConnection() probe of a health check fails for a
\* registered connection that was connected before the probe, the manager
\* starts a reconnect of that connection.
C1_FailedProbeStartsReconnect ==
  [][\A c \in ConfigIdSet :
       (HealthProbe(c, FALSE) /\ isConnected[c]) => task'[c].kind = "reconnect"]_vars

\* What a retry sequence run alone on the answers script of its backend ends
\* in: "Connected" at the first success, "Failed" after retryAttempts
\* failures, "pending" while answers are still owed.
RECURSIVE aloneRetry(_, _)
aloneRetry(script, attempt) ==
  IF attempt > retryAttempts THEN "Failed"
  ELSE IF script = <<>> THEN "pending"
  ELSE IF Head(script) THEN "Connected"
  ELSE aloneRetry(Tail(script), attempt + 1)

\* initialize() has resolved and nothing has been called since.
JustInitialized == initPc = "done" /\ ops = 0

\* C2: initialize() of a non-empty config map completes; the configs the
\* factory rejects are not registered, exactly the others are, in config
\* order, and each of them ends Connected or Failed as its own backend's
\* answers alone decide.
C2_InitFaultIsolation ==
  JustInitialized =>
    /\ Registered = {c \in ConfigIdSet : configs[c] = MySQLConfig}
    /\ \A c \in Registered :
         /\ task[c] = Idle
         /\ aloneRetry(answers[c], 1) \in {"Connected", "Failed"}
         /\ isConnected[c] <=> aloneRetry(answers[c], 1) = "Connected"

C2_Witness ==
  /\ JustInitialized
  /\ configs["db1"] = NoHostConfig
  /\ connections = <<"db2">>
  /\ isConnected["db2"]
  /\ answers["db2"] = <<FALSE, TRUE>>

\* The step in which the retry sequence of c ends with connect() having
\* failed every time.
RetryExhausted(c) ==
  /\ task[c].pc \in {"ping", "disc"}
  /\ task'[c] = Idle
  /\ ~isConnected'[c]

\* C3: a retry sequence calls connect() at most retryAttempts times and has
\* slept retryDelay * n after its n-th failed attempt; when connect() failed
\* every time it was called exactly retryAttempts times, the adapter is not
\* connected and holds the error of the last attempt; a successful attempt
\* is the last connect() of the sequence.
C3_BoundedRetry ==
  /\ [](\A c \in ConfigIdSet :
          /\ calls[c] <= retryAttempts
          /\ waits[c] = [n \in 1..Len(waits[c]) |-> RetryDelay * n]
          /\ Len(waits[c]) = IF task[c].pc = "wait" THEN calls[c]
                             ELSE IF calls[c] = 0 THEN 0 ELSE calls[c] - 1
          /\ \A n \in 1..Len(answers[c]) :
               answers[c][n] => n = calls[c] /\ task[c].pc \notin {"disc", "ping", "wait"})
  /\ [][\A c \in ConfigIdSet :
          RetryExhausted(c) =>
            /\ calls'[c] = retryAttempts
            /\ answers'[c] = [n \in 1..retryAttempts |-> FALSE]
            /\ lastError'[c] \in {<<"connect", retryAttempts>>, <<"pool.end", retryAttempts>>}]_vars

C3_Witness ==
  /\ retryAttempts = 2
  /\ task["db1"] = Idle
  /\ answers["db1"] = <<FALSE, FALSE>>
  /\ waits["db1"] = <<RetryDelay>>
  /\ lastError["db1"] = <<"connect", 2>>

\* C4: when initialize() has resolved, the current connection is the first
\* id, in config order, whose adapter is connected; '' when none is.
C4_CurrentAfterInitialize ==
  JustInitialized =>
    LET up == {i \in 1..NumConfigs : ConfigIds[i] \in Registered /\ isConnected[ConfigIds[i]]}
    IN IF up = {} THEN currentDatabase = NoDatabase
       ELSE currentDatabase = ConfigIds[CHOOSE i \in up : \A j \in up : i <= j]

C4_Witness ==
  /\ JustInitialized
  /\ connections = <<"db1", "db2">>
  /\ ~isConnected["db1"]
  /\ isConnected["db2"]
  /\ currentDatabase = "db2"

\* C5: switchDatabase(id) fails with not-found for an unregistered id and
\* with inactive for a registered id that is not connected, leaving the
\* current connection as it was; it makes id current exactly when id is
\* registered and connected at the call.
C5_Switch ==
  [][\A id \in IdSet :
       SwitchDatabase(id) =>
         /\ id \notin Registered =>
              lastCall'.result = "NotFound" /\ currentDatabase' = currentDatabase
         /\ (id \in Registered /\ ~isConnected[id]) =>
              lastCall'.result = "Inactive" /\ currentDatabase' = currentDatabase
         /\ (id \in Registered /\ isConnected[id]) =>
              lastCall'.result = "ok" /\ currentDatabase' = id]_vars

C5_Witness ==
  /\ lastCall = [op |-> "switch", id |-> "db2", result |-> "Inactive"]
  /\ currentDatabase = "db1"
  /\ "db2" \in Registered

\* --------------------------------------------------------------- C6 - C10
\* A step in which the caller calls query().
QueryCalled == queries' = queries + 1

\* A step in which a query() call returns or throws.
QueryEnds == (QueryCalled \/ q.stage = "adapter") /\ q'.stage \in {"returned", "threw"}

\* The call q handed its statement to the adapter.
ReachedAdapter == \E i \in 1..Len(q.trace) : q.trace[i][1] = "adapter.query"

\* C6: in every query() call the adapter's query() is invoked only after
\* validateQuery accepted the statement and checkRateLimit admitted the call;
\* checkRateLimit is consulted only after validateQuery accepted; a
\* statement blocked by validation consumes no rate-limit quota.
C6_GatePrecedesAdapter ==
  [][QueryCalled =>
       LET t == q'.trace
       IN /\ \A i \in 1..Len(t) :
               /\ t[i][1] = "adapter.query" =>
                    i = 3 /\ t[1] = <<"validateQuery", TRUE>> /\ t[2] = <<"checkRateLimit", TRUE>>
               /\ t[i][1] = "checkRateLimit" => i = 2 /\ t[1] = <<"validateQuery", TRUE>>
          /\ q'.stage = "adapter" =>
               /\ Len(t) = 3
               /\ validateQuery(q'.sql, q'.target).isValid
               /\ checkRateLimit(rateLimits, q'.target).ok
          /\ ~validateQuery(q'.sql, q'.target).isValid =>
               q'.stage = "threw" /\ rateLimits' = rateLimits]_vars

\* A statement blocked by validation on a target with quota left: the
\* rate-limit map never heard of the target.
C6_Witness ==
  /\ q.stage = "threw" /\ q.error = "Blocked" /\ q.sql = UnionSelect
  /\ q.trace = <<<<"validateQuery", FALSE>>>>
  /\ q.target = "db1" /\ isConnected["db1"] /\ "db1" \notin DOMAIN rateLimits

\* The errors getConnection throws.
ResolutionErrors == {"NoCurrent", "NotFound", "Inactive"}

\* C7 as stated: every call to query() appends at least one event to the
\* log before it returns or throws, whatever the outcome.
C7_QueryAlwaysLogs ==
  [][QueryEnds => Len(events') > Len(events)]_vars

\* C7 amended: a query() call whose target resolves to a registered,
\* connected connection appends at least one event before it returns or
\* throws (success, adapter failure, validation block, rate-limit
\* rejection); a call whose target does not resolve throws and logs nothing.
C7_ResolvedQueryLogs ==
  [][QueryEnds =>
       IF q'.error \in ResolutionErrors
       THEN events' = events /\ q'.stage = "threw" /\ q'.trace = <<>>
       ELSE /\ Len(events') > Len(events)
            /\ events'[Len(events')].event \in
                 CASE q'.stage = "returned" -> {"query_executed"}
                   [] q'.error = "AdapterError" -> {"query_failed"}
                   [] q'.error = "Blocked" -> {"query_blocked"}
                   [] OTHER -> {"rate_limit_exceeded"}]_vars

\* A rate-limit rejection: its only event is rate_limit_exceeded.
C7_Witness ==
  /\ q.stage = "threw" /\ q.error = "RateLimited" /\ q.target = "db2"
  /\ Len(events) > 0 /\ events[Len(events)].event = "rate_limit_exceeded"

Min(a, b) == IF a <= b THEN a ELSE b
Max(a, b) == IF a >= b THEN a ELSE b

\* C8: for every configured maxQueryResults M and every backend result of n
\* rows, query() returns exactly the first min(n, M) rows in their order.
C8_ResultTruncation ==
  q.stage = "returned" =>
    q.result.results =
      SubSeq(backendResult(q.rows).results, 1, Min(q.rows, securityConfig.maxQueryResults))

\* What query() returns for a backend result of n rows.
Returned(n) == applyResultLimits(backendResult(n), querySecurityConfig.maxQueryResults)

\* What a caller sees of a result besides the rows' contents: every field,
\* with the rows replaced by their number.
Shape(result) == [result EXCEPT !.results = Len(@)]

\* C9: what query() returns for a backend result that was truncated differs,
\* by a flag or a row count, from what it returns for an untruncated backend
\* result of exactly as many rows as were kept.
C9_TruncationDetectable ==
  (q.stage = "returned" /\ Len(q.result.results) < q.rows) =>
    Shape(q.result) # Shape(Returned(Len(q.result.results)))

\* isModifyingQuery, isDropQuery, isTruncateQuery of the pool-based manager.
isModifyingQuery(sql) ==
  Len(sql.toks) > 1 /\ Upper(sql.toks[1]) \in
    {"INSERT", "UPDATE", "DELETE", "REPLACE", "ALTER", "CREATE", "DROP", "TRUNCATE"}
isDropQuery(sql) == Len(sql.toks) > 1 /\ Upper(sql.toks[1]) = "DROP"
isTruncateQuery(sql) == Len(sql.toks) > 1 /\ Upper(sql.toks[1]) = "TRUNCATE"

\* C10: when read-only mode is set or data modification is disabled, no
\* statement that begins with INSERT, UPDATE, DELETE, REPLACE, ALTER, CREATE,
\* DROP or TRUNCATE reaches the backend; nor a DROP statement when allowDrop
\* is false, nor a TRUNCATE statement when allowTruncate is false.
C10_StatementPolicy ==
  ReachedAdapter =>
    /\ (securityConfig.readOnlyMode \/ ~securityConfig.allowDataModification) =>
         ~isModifyingQuery(q.sql)
    /\ ~securityConfig.allowDrop => ~isDropQuery(q.sql)
    /\ ~securityConfig.allowTruncate => ~isTruncateQuery(q.sql)

\* -------------------------------------------------------------- close()
\* connection.disconnect() as close() calls it, up to its first await: the
\* pool is being ended, or, with no pool, the adapter is marked disconnected.
closeDisconnect(L) ==
  IF L.pool
  THEN [L EXCEPT !.task = [kind |-> "close", pc |-> "cdisc", attempt |-> 0]]
  ELSE setConnected(L, FALSE, NoError)

\* The caller calls close() on a manager at rest, up to
\* await Promise.allSettled(closePromises).
Close ==
  /\ initPc = "done"
  /\ \A c \in ConfigIdSet : task[c] = Idle
  /\ LET F == [c \in ConfigIdSet |-> closeDisconnect(Local(c))]
     IN ApplyAll(F, connections)
  /\ initPc' = "closing"
  /\ lastCall' = [op |-> "close", id |-> NoDatabase, result |-> "pending"]
  /\ UNCHANGED <<configs, retryAttempts, connections, currentDatabase, ops, rateLimits, now,
                 queryVars>>

\* close(): the pool.end() of disconnect() has resolved (the pool is dropped
\* and the adapter marked disconnected) or rejected (disconnect() records
\* the error and throws; close() catches it and prints it).
ClosePoolEnd(c, ok) ==
  /\ task[c].pc = "cdisc"
  /\ LET L == Local(c)
     IN Apply(c, IF ok
                 THEN [setConnected([L EXCEPT !.pool = FALSE], FALSE, NoError)
                         EXCEPT !.task = Idle]
                 ELSE [logError(L, <<"pool.end", 0>>) EXCEPT !.task = Idle])
  /\ UNCHANGED <<mgrVars, rateLimits, now, queryVars>>

\* CloseFinish that clears the registry and keeps currentDatabase.
CloseFinishKeepCurrent ==
  /\ initPc = "closing"
  /\ \A c \in ConfigIdSet : task[c].kind # "close"
  /\ connections' = <<>>
  /\ initPc' = "closed"
  /\ lastCall' = [op |-> "close", id |-> NoDatabase, result |-> "ok"]
  /\ UNCHANGED <<configs, retryAttempts, ops, currentDatabase>>
  /\ UNCHANGED <<adapterVars, taskVars, secVars, now, queryVars>>

\* close() after Promise.allSettled: the registry is cleared.
CloseFinish ==
  /\ initPc = "closing"
  /\ \A c \in ConfigIdSet : task[c].kind # "close"
  /\ connections' = <<>>
  /\ currentDatabase' = NoDatabase
  /\ initPc' = "closed"
  /\ lastCall' = [op |-> "close", id |-> NoDatabase, result |-> "ok"]
  /\ UNCHANGED <<configs, retryAttempts, ops>>
  /\ UNCHANGED <<adapterVars, taskVars, secVars, now, queryVars>>

\* A manager built with retryAttempts 1 is initialized and closed.
InitClose ==
  /\ Constructed
  /\ retryAttempts = 1
  /\ rateLimits = <<>>
  /\ securityConfig = DefaultSecurityConfig

NextClose ==
  \/ Initialize
  \/ InitializeFinish
  \/ \E c \in ConfigIdSet, ok \in BOOLEAN : ConnectPing(c, ok)
  \/ Close
  \/ \E c \in ConfigIdSet, ok \in BOOLEAN : ClosePoolEnd(c, ok)
  \/ CloseFinish

SpecClose == InitClose /\ [][NextClose]_vars

\* ------------------------------------------- the security gate by itself
\* Gate calls (and ticks of the clock) made in one run.
MaxGateOps == 2

\* Milliseconds in an hour (clearOldEvents: 60 * 60 * 1000).
MsPerHour == 3600000

Reverse(seq) == [i \in 1..Len(seq) |-> seq[Len(seq) + 1 - i]]

\* Array.prototype.slice(-limit): the last limit elements, all of them when
\* limit is 0 (slice(-0) is slice(0)) or exceeds the length.
sliceLast(seq, limit) ==
  IF limit = 0 \/ limit >= Len(seq) THEN seq
  ELSE SubSeq(seq, Len(seq) - limit + 1, Len(seq))

\* SecurityManager.getRecentEvents(limit) on the log evs.
getRecentEvents(evs, limit) == Reverse(sliceLast(evs, limit))

\* The events getSecurityReport looks at.
RiskWindow == 20

\* recentEvents.filter(e => e.severity === severity).length
severityCount(recentEvents, severity) ==
  Len(SelectSeq(recentEvents, LAMBDA e : e.severity = severity))

\* riskLevel with the error threshold at 2 (errorEvents >= 2).
riskLevelErrorAtTwo(recentEvents) ==
  IF severityCount(recentEvents, "critical") > 0 THEN "critical"
  ELSE IF severityCount(recentEvents, "error") >= 2 THEN "high"
  ELSE IF severityCount(recentEvents, "warning") > 5 THEN "medium"
  ELSE "low"

\* The riskLevel getSecurityReport derives from recentEvents.
riskLevel(recentEvents) ==
  IF severityCount(recentEvents, "critical") > 0 THEN "critical"
  ELSE IF severityCount(recentEvents, "error") > 2 THEN "high"
  ELSE IF severityCount(recentEvents, "warning") > 5 THEN "medium"
  ELSE "low"

\* SecurityManager.getSecurityReport()
getSecurityReport ==
  LET recentEvents == getRecentEvents(events, RiskWindow)
  IN [overview |-> metrics[GlobalId],
      databases |-> [id \in DOMAIN metrics \ {GlobalId} |-> metrics[id]],
      recentEvents |-> recentEvents,
      riskLevel |-> riskLevel(recentEvents)]

\* SecurityManager.clearOldEvents(olderThanHours) on the log evs.
clearOldEvents(evs, olderThanHours) ==
  LET cutoff == now - olderThanHours * MsPerHour
  IN SelectSeq(evs, LAMBDA e : e.timestamp > cutoff)

\* The events callers log: each counted kind, kinds no counter matches, and
\* events filed under 'global'.
GateEvents ==
  {[event |-> "connection_success", databaseId |-> "db1", severity |-> "info"],
   [event |-> "connection_failed", databaseId |-> "db1", severity |-> "error"],
   [event |-> "query_executed", databaseId |-> "db2", severity |-> "info"],
   [event |-> "query_blocked", databaseId |-> "db1", severity |-> "warning"],
   [event |-> "suspicious_activity", databaseId |-> "db2", severity |-> "critical"],
   [event |-> "connection_test", databaseId |-> "db1", severity |-> "info"],
   [event |-> "query_blocked", databaseId |-> GlobalId, severity |-> "warning"],
   [event |-> "rate_limit_exceeded", databaseId |-> GlobalId, severity |-> "warning"]}

\* The time at which the runs of the gate start: 25 hours after the first
\* event logged.
GateStart == 25 * MsPerHour

\* n events of one severity logged for db1 at the times from + 1 .. from + n.
Block(severity, n, from) ==
  [i \in 1..n |-> [timestamp |-> from + i, event |-> "connection_test", databaseId |-> "db1",
                   severity |-> severity]]

\* Logs left by earlier logEvent calls: none, one short of the bound, and
\* mixes of severities around the thresholds of the risk level; the first
\* block was logged up to 24 hours before GateStart, the second just before.
PriorLogs ==
  {<<>>,
   Block("info", MaxEvents - 1, 0),
   Block("critical", 1, MsPerHour - 1) \o Block("info", RiskWindow - 1, GateStart - RiskWindow),
   Block("critical", 1, MsPerHour - 1) \o Block("info", RiskWindow, GateStart - RiskWindow),
   Block("error", 3, MsPerHour - 3) \o Block("warning", 6, GateStart - RiskWindow),
   Block("error", 2, MsPerHour - 2) \o Block("warning", 5, GateStart - RiskWindow),
   Block("warning", 3, MsPerHour - 3) \o Block("error", 17, GateStart - RiskWindow)}

\* The metrics the calls that logged the events of log left: no counter
\* matches their kind.
priorMetrics(log) ==
  IF log = <<>> THEN (GlobalId :> ZeroMetrics)
  ELSE LET last == [ZeroMetrics EXCEPT !.lastActivity = log[Len(log)].timestamp]
       IN (GlobalId :> last) @@ ("db1" :> last)

\* A caller calls logEvent(e).
LogEvent(e) ==
  /\ ops < MaxGateOps
  /\ ops' = ops + 1
  /\ LogAll(<<Ev(e.event, e.databaseId, e.severity)>>)
  /\ lastCall' = [op |-> "logEvent", id |-> e.databaseId, result |-> e.event]
  /\ UNCHANGED <<configs, retryAttempts, connections, currentDatabase, initPc>>
  /\ UNCHANGED <<adapterVars, taskVars, rateLimits, now, queryVars>>

\* A caller calls validateQuery(sql, databaseId).
ValidateQuery(sql, databaseId) ==
  /\ ops < MaxGateOps
  /\ ops' = ops + 1
  /\ LogAll(validateQuery(sql, databaseId).log)
  /\ lastCall' = [op |-> "validateQuery", id |-> databaseId,
                  result |-> [isValid |-> validateQuery(sql, databaseId).isValid,
                              reason |-> validateQuery(sql, databaseId).reason],
                  sql |-> sql]
  /\ UNCHANGED <<configs, retryAttempts, connections, currentDatabase, initPc>>
  /\ UNCHANGED <<adapterVars, taskVars, rateLimits, now, queryVars>>

\* A caller calls checkRateLimit(identifier) with the defaults.
CheckRateLimit(identifier) ==
  /\ ops < MaxGateOps
  /\ ops' = ops + 1
  /\ LET r == checkRateLimit(rateLimits, identifier)
     IN /\ rateLimits' = r.limits
        /\ LogAll(r.log)
        /\ lastCall' = [op |-> "checkRateLimit", id |-> identifier, result |-> r.ok]
  /\ UNCHANGED <<configs, retryAttempts, connections, currentDatabase, initPc>>
  /\ UNCHANGED <<adapterVars, taskVars, now, queryVars>>

\* A caller calls clearOldEvents(olderThanHours).
ClearOldEvents(olderThanHours) ==
  /\ ops < MaxGateOps
  /\ ops' = ops + 1
  /\ events' = clearOldEvents(events, olderThanHours)
  /\ lastCall' = [op |-> "clearOldEvents", id |-> NoDatabase, result |-> olderThanHours]
  /\ UNCHANGED <<configs, retryAttempts, connections, currentDatabase, initPc>>
  /\ UNCHANGED <<adapterVars, taskVars, metrics, rateLimits, now, queryVars>>

\* A caller calls getSecurityReport().
GetSecurityReport ==
  /\ ops < MaxGateOps
  /\ ops' = ops + 1
  /\ lastCall' = [op |-> "getSecurityReport", id |-> NoDatabase, result |-> getSecurityReport]
  /\ UNCHANGED <<configs, retryAttempts, connections, currentDatabase, initPc>>
  /\ UNCHANGED <<adapterVars, taskVars, secVars, now, queryVars>>

\* d milliseconds pass.
Tick(d) ==
  /\ ops < MaxGateOps
  /\ ops' = ops + 1
  /\ now' = now + d
  /\ UNCHANGED <<configs, retryAttempts, connections, currentDatabase, initPc, lastCall>>
  /\ UNCHANGED <<adapterVars, taskVars, secVars, queryVars>>

\* The securityManager singleton at GateStart, with the log and the metrics
\* earlier calls left, beside a manager just constructed.
InitGate ==
  /\ ManagerConstructed
  /\ configs = [c \in ConfigIdSet |-> MySQLConfig]
  /\ now = GateStart
  /\ retryAttempts = 1
  /\ securityConfig = DefaultSecurityConfig
  /\ rateLimits = <<>>
  /\ \E log \in PriorLogs : events = log /\ metrics = priorMetrics(log)


\* The statements and times tried on the gate by itself.
GateStatements == {UnionSelect, TwoSelects}
GateTicks == {1, MsPerHour}
GateHours == {1, 24}

NextGate ==
  \/ \E e \in GateEvents : LogEvent(e)
  \/ \E sql \in GateStatements : ValidateQuery(sql, "db1")
  \/ CheckRateLimit("db1")
  \/ \E h \in GateHours : ClearOldEvents(h)
  \/ GetSecurityReport
  \/ \E d \in GateTicks : Tick(d)

SpecGate == InitGate /\ [][NextGate]_vars

\* -------------------------------------------------------------- C11 - C20
\* C11: close() never throws, and when it completes every adapter that was
\* registered reports disconnected, the registry is empty and there is no
\* current connection, even if individual disconnect calls fail.
C11_ClosePostcondition ==
  initPc = "closed" =>
    /\ lastCall = [op |-> "close", id |-> NoDatabase, result |-> "ok"]
    /\ connections = <<>>
    /\ currentDatabase = NoDatabase
    /\ \A c \in SeqToSet(registeredBy(ConfigIds)) : ~isConnected[c]

\* The step is a call of one gate operation (not a tick of the clock).
GateCall(op) == ops' = ops + 1 /\ now' = now /\ lastCall'.op = op

\* The step is the call logEvent(e).
LogStep(e) ==
  GateCall("logEvent") /\ lastCall'.id = e.databaseId /\ lastCall'.result = e.event

\* The step is the call clearOldEvents(h).
ClearStep(h) == GateCall("clearOldEvents") /\ lastCall'.result = h

\* C12: the log never holds more than 1000 events; every logEvent call
\* appends its event as the newest and keeps, in their order, the events
\* logged before it, except that the oldest goes when 1000 are held: so
\* once more than 1000 were logged the log is the 1000 most recent, in order.
C12_BoundedEventLog ==
  /\ [](Len(events) <= 1000)
  /\ [][\A e \in GateEvents :
          LogStep(e) =>
            LET n == Len(events)
                kept == Min(n + 1, 1000)
            IN /\ Len(events') = kept
               /\ events'[kept] = [timestamp |-> now, event |-> e.event,
                                   databaseId |-> e.databaseId, severity |-> e.severity]
               /\ \A i \in 1..(kept - 1) : events'[i] = events[n + 1 - kept + i]]_vars

\* 999 events were logged at the times 1 .. 999 and two more since: the
\* event of time 1 is gone.
C12_Witness ==
  /\ Len(events) = 1000
  /\ events[1].timestamp = 2
  /\ events[999].event = "query_executed" /\ events[1000].event = "connection_failed"

\* ------------------------------------------------ checkRateLimit by itself
\* checkRateLimit calls (and ticks of the clock) made in one run.
MaxRateOps == 6

\* The ceilings and windows (ms) a caller passes; it passes the same ones
\* on every call of a run.
RateCeilings == {1, 3}
RateWindows == {1000}

\* The time that passes between calls: short of a window, a whole window to
\* the millisecond, and more than a window.
RateTicks(windowMs) == {1, windowMs, windowMs + 1}

\* The window the caller's earlier calls belong to is over at the time now.
WindowOver == lastCall.op # "checkRateLimit" \/ now - lastCall.start > lastCall.windowMs

\* A caller calls checkRateLimit(identifier, maxRequests, windowMs).  The
\* caller keeps count: n is the number of its calls since start, the time of
\* its first call or of its first call after a window of windowMs was over.
RateCall(identifier, maxRequests, windowMs) ==
  /\ ops < MaxRateOps
  /\ ops' = ops + 1
  /\ lastCall.op = "checkRateLimit" =>
       maxRequests = lastCall.maxRequests /\ windowMs = lastCall.windowMs
  /\ LET r == checkRateLimitWith(rateLimits, identifier, maxRequests, windowMs)
     IN /\ rateLimits' = r.limits
        /\ LogAll(r.log)
        /\ lastCall' = [op |-> "checkRateLimit", id |-> identifier, result |-> r.ok,
                        maxRequests |-> maxRequests, windowMs |-> windowMs,
                        n |-> IF WindowOver THEN 1 ELSE lastCall.n + 1,
                        start |-> IF WindowOver THEN now ELSE lastCall.start]
  /\ UNCHANGED <<configs, retryAttempts, connections, currentDatabase, initPc>>
  /\ UNCHANGED <<adapterVars, taskVars, now, queryVars>>

\* d milliseconds pass between two calls.
RateTick(d) ==
  /\ ops < MaxRateOps
  /\ ops' = ops + 1
  /\ lastCall.op = "checkRateLimit"
  /\ d \in RateTicks(lastCall.windowMs)
  /\ now' = now + d
  /\ UNCHANGED <<configs, retryAttempts, connections, currentDatabase, initPc, lastCall>>
  /\ UNCHANGED <<adapterVars, taskVars, secVars, queryVars>>

\* A securityManager just constructed.
InitRate ==
  /\ Constructed
  /\ configs = [c \in ConfigIdSet |-> MySQLConfig]
  /\ retryAttempts = 1
  /\ securityConfig = DefaultSecurityConfig
  /\ rateLimits = <<>>

NextRate ==
  \/ \E m \in RateCeilings, w \in RateWindows : RateCall("db1", m, w)
  \/ \E w \in RateWindows : \E d \in RateTicks(w) : RateTick(d)

SpecRate == InitRate /\ [][NextRate]_vars

\* C13: with ceiling max and window w, the first max calls inside one window
\* return true; every further call inside it returns false and logs one
\* warning event; the first call after the window is over resets the counter
\* to 1 and returns true.
C13_RateLimiting ==
  [][\A m \in RateCeilings, w \in RateWindows :
       RateCall("db1", m, w) =>
         /\ lastCall'.result = (lastCall'.n <= m)
         /\ lastCall'.n = 1 => rateLimits'["db1"] = [count |-> 1, lastReset |-> now]
         /\ lastCall'.result => events' = events
         /\ ~lastCall'.result =>
              /\ Len(events') = Len(events) + 1
              /\ SubSeq(events', 1, Len(events)) = events
              /\ events'[Len(events')].severity = "warning"]_vars

\* Ceiling 3: three calls admitted, the fourth rejected and logged, and the
\* call made after the window was over admitted with the counter back at 1.
C13_Witness ==
  /\ lastCall.op = "checkRateLimit" /\ lastCall.maxRequests = 3
  /\ lastCall.result = TRUE /\ lastCall.n = 1 /\ lastCall.start = 1001
  /\ rateLimits["db1"].count = 1
  /\ Len(events) = 1 /\ events[1].event = "rate_limit_exceeded" /\ events[1].timestamp = 0

\* The number of events of one severity among the 20 most recent of the log.
RecentWith(severity) ==
  Cardinality({i \in 1..Len(events) : i > Len(events) - 20 /\ events[i].severity = severity})

\* C14: getSecurityReport().riskLevel is critical if any of the 20 most
\* recent events is critical; otherwise high if more than 2 are errors;
\* otherwise medium if more than 5 are warnings; otherwise low.
C14_RiskLevel ==
  lastCall.op = "getSecurityReport" =>
    lastCall.result.riskLevel =
      CASE RecentWith("critical") >= 1 -> "critical"
        [] RecentWith("error") > 2 -> "high"
        [] RecentWith("warning") > 5 -> "medium"
        [] OTHER -> "low"

\* The only critical event is the 21st most recent: the level is low.
C14_Witness ==
  /\ lastCall.op = "getSecurityReport" /\ lastCall.result.riskLevel = "low"
  /\ Len(events) = 21 /\ events[1].severity = "critical"

\* ------------------------------------------------- validateQuery by itself
\* Statements tried on validateQuery, each with what its text is to the
\* fixed patterns (suspicious: some pattern matches it) and the number of
\* its non-empty segments between semicolons, both read off the text.
ValidationCases ==
  {\* SELECT * FROM users WHERE id = ?
   [sql |-> SelectPlain, suspicious |-> FALSE, segments |-> 1],
   \* SELECT * FROM users union select password FROM admins
   [sql |-> UnionSelect, suspicious |-> TRUE, segments |-> 1],
   \* x; DROP TABLE users
   [sql |-> [toks |-> <<"x", ";", "DROP", "TABLE", "users">>, length |-> 19],
    suspicious |-> TRUE, segments |-> 2],
   \* SELECT 1; delete from users
   [sql |-> [toks |-> <<"SELECT", "1", ";", "delete", "from", "users">>, length |-> 27],
    suspicious |-> TRUE, segments |-> 2],
   \* SELECT 1; UPDATE users SET a = 1
   [sql |-> [toks |-> <<"SELECT", "1", ";", "UPDATE", "users", "SET", "a", "=", "1">>,
             length |-> 32],
    suspicious |-> TRUE, segments |-> 2],
   \* SELECT LOAD_FILE (?)
   [sql |-> [toks |-> <<"SELECT", "LOAD_FILE", "(", "?", ")">>, length |-> 20],
    suspicious |-> TRUE, segments |-> 1],
   \* SELECT * FROM users INTO OUTFILE ?
   [sql |-> [toks |-> <<"SELECT", "*", "FROM", "users", "INTO", "OUTFILE", "?">>,
             length |-> 34],
    suspicious |-> TRUE, segments |-> 1],
   \* SELECT BENCHMARK(?, ?)
   [sql |-> [toks |-> <<"SELECT", "BENCHMARK", "(", "?", ",", "?", ")">>, length |-> 22],
    suspicious |-> TRUE, segments |-> 1],
   \* SELECT sleep(?)
   [sql |-> [toks |-> <<"SELECT", "sleep", "(", "?", ")">>, length |-> 15],
    suspicious |-> TRUE, segments |-> 1],
   \* DROP TABLE users
   [sql |-> DropTable, suspicious |-> FALSE, segments |-> 1],
   \* x; Drop        (no white space follows the keyword)
   [sql |-> [toks |-> <<"x", ";", "Drop">>, length |-> 7], suspicious |-> FALSE,
    segments |-> 2],
   \* SELECT 1; SELECT 2
   [sql |-> TwoSelects, suspicious |-> FALSE, segments |-> 2],
   \* SELECT 1;
   [sql |-> [toks |-> <<"SELECT", "1", ";">>, length |-> 9], suspicious |-> FALSE,
    segments |-> 1],
   \* SELECT 1 -- followed by a comment up to 10,001 characters in all
   [sql |-> Oversized, suspicious |-> FALSE, segments |-> 1],
   \* the same up to 10,000 characters in all
   [sql |-> [toks |-> <<"SELECT", "1">>, length |-> 10000], suspicious |-> FALSE,
    segments |-> 1],
   \* SELECT 1 union select 2 -- with a comment up to 10,001 characters
   [sql |-> [toks |-> <<"SELECT", "1", "union", "select", "2">>, length |-> 10001],
    suspicious |-> TRUE, segments |-> 1]}

NextValidate ==
  \E case \in ValidationCases, db \in ConfigIdSet : ValidateQuery(case.sql, db)

SpecValidate == InitRate /\ [][NextValidate]_vars

\* C15: validateQuery rejects a statement if and only if a suspicious
\* pattern matches it or it is longer than 10,000 characters; a rejection
\* logs exactly one event, of warning severity; an accepted statement of
\* several non-empty segments logs one info event, any other accepted
\* statement none.
C15_ValidateQueryVerdict ==
  [][\A case \in ValidationCases, db \in ConfigIdSet :
       ValidateQuery(case.sql, db) =>
         LET rejected == case.suspicious \/ case.sql.length > 10000
             logged == SubSeq(events', Len(events) + 1, Len(events'))
         IN /\ lastCall'.result.isValid = ~rejected
            /\ SubSeq(events', 1, Len(events)) = events
            /\ Len(logged) = IF rejected \/ case.segments > 1 THEN 1 ELSE 0
            /\ \A i \in 1..Len(logged) :
                 /\ logged[i].severity = IF rejected THEN "warning" ELSE "info"
                 /\ logged[i].databaseId = db]_vars

\* "x; DROP TABLE users" was rejected for db2 and logged once, as a warning.
C15_Witness ==
  /\ lastCall.op = "validateQuery" /\ lastCall.id = "db2"
  /\ lastCall.sql.toks = <<"x", ";", "DROP", "TABLE", "users">>
  /\ lastCall.result.isValid = FALSE
  /\ Len(events) = 1 /\ events[1].event = "suspicious_query_detected"
  /\ events[1].severity = "warning"

\* The counters of a metrics record.
Counters ==
  {"totalConnections", "failedConnections", "queryCount", "blockedQueries", "suspiciousActivity"}

\* The counter that matches an event kind, "" when none does.
MatchingCounter(event) ==
  CASE event = "connection_success" -> "totalConnections"
    [] event = "connection_failed" -> "failedConnections"
    [] event = "query_executed" -> "queryCount"
    [] event = "query_blocked" -> "blockedQueries"
    [] event = "suspicious_activity" -> "suspiciousActivity"
    [] OTHER -> ""

\* Counter k filed under id in the metrics map ms, 0 when id has no entry.
CounterOf(ms, id, k) == IF id \in DOMAIN ms THEN ms[id][k] ELSE 0

\* C16: a logEvent call whose kind is one of the five counted kinds raises
\* the matching counter of the event's backend and the matching global
\* counter by exactly one each, for every backend id, and no other counter;
\* an event of any other kind changes no counter.
C16_MetricCounting ==
  [][\A e \in GateEvents :
       LogStep(e) =>
         \A id \in DOMAIN metrics \cup DOMAIN metrics', k \in Counters :
           LET delta == CounterOf(metrics', id, k) - CounterOf(metrics, id, k)
           IN IF MatchingCounter(e.event) = ""
              THEN delta = 0
              ELSE e.databaseId # GlobalId =>
                     delta = IF k = MatchingCounter(e.event) /\ id \in {e.databaseId, GlobalId}
                             THEN 1 ELSE 0]_vars

\* query_blocked was logged for db1 and then query_executed for db2: each
\* backend and the global record count them once.
C16_Witness ==
  /\ lastCall.op = "logEvent" /\ lastCall.id = "db2" /\ lastCall.result = "query_executed"
  /\ DOMAIN metrics = {GlobalId, "db1", "db2"}
  /\ metrics["db1"].blockedQueries = 1 /\ metrics["db2"].queryCount = 1
  /\ metrics[GlobalId].blockedQueries = 1 /\ metrics[GlobalId].queryCount = 1

\* No counter of the metrics map decreases in the step, and no entry goes.
CountersGrow ==
  \A id \in DOMAIN metrics :
    id \in DOMAIN metrics' /\ \A k \in Counters : metrics'[id][k] >= metrics[id][k]

\* clearOldEvents(h) removed from the log the events e with Old(e, cutoff)
\* and kept the others in their order (the log is in the order of logging,
\* so the events removed are the first k), and changed no metrics.
Purged(h, Old(_, _)) ==
  LET cutoff == now - h * MsPerHour
  IN /\ \E k \in 0..Len(events) :
          /\ events' = SubSeq(events, k + 1, Len(events))
          /\ \A i \in 1..Len(events) : Old(events[i], cutoff) <=> (i <= k)
     /\ metrics' = metrics

OlderThan(e, cutoff) == e.timestamp < cutoff
NotAfter(e, cutoff) == e.timestamp <= cutoff

\* C17: clearOldEvents removes exactly the events older than the
\* cutoff, keeps the survivors in their order and changes no counter; over
\* any sequence of gate operations every counter is non-decreasing.
C17_PurgeOlderThanCutoff ==
  [][/\ \A h \in GateHours : ClearStep(h) => Purged(h, OlderThan)
     /\ CountersGrow]_vars

\* The purge as coded (timestamp > cutoff survives): clearOldEvents removes
\* exactly the events logged at or before the cutoff, keeps the survivors in
\* their order and changes no counter; every counter is non-decreasing.
C17_PurgeUpToCutoff ==
  [][/\ \A h \in GateHours : ClearStep(h) => Purged(h, NotAfter)
     /\ CountersGrow]_vars

\* After a counted event, clearOldEvents(24) removed the events logged up to
\* 24 hours before and kept the later ones; the counter stands.
C17_Witness ==
  /\ lastCall.op = "clearOldEvents" /\ lastCall.result = 24
  /\ Len(events) = 7 /\ events[1].timestamp = GateStart - RiskWindow + 1
  /\ events[7].event = "query_blocked"
  /\ metrics["db1"].blockedQueries = 1

\* ------------------------------------------------- the factory, in use
\* Calls of DatabaseFactory.createConnection the caller makes.
MaxFactoryOps == 1

SQLTypes == {"mysql", "postgresql", "planetscale"}

\* Configs of every kind, with and without the fields validateConfig looks
\* at (and without the password, the database and the port, which it does
\* not require), a config without type and one of a type not listed.
SQLConfigs ==
  {[MySQLConfig EXCEPT !.type = t, !.host = h, !.user = u, !.port = pt, !.password = pw,
                       !.database = d] :
     t \in SQLTypes, h \in {"", "h"}, u \in {"", "u"}, pt \in {0, 3306},
     pw \in {"", "p"}, d \in {"", "d"}}
SQLiteConfigs ==
  {[NoConfig EXCEPT !.type = "sqlite", !.file = f, !.database = d] :
     f \in {"", "f"}, d \in {"", "d"}}
SupabaseConfigs ==
  {[NoConfig EXCEPT !.type = "supabase", !.projectUrl = url, !.anonKey = a, !.serviceKey = k] :
     url \in {"", "https://p"}, a \in {"", "a"}, k \in {"", "k"}}
MongoConfigs ==
  {[NoConfig EXCEPT !.type = "mongodb", !.host = h, !.connectionString = cs, !.port = pt] :
     h \in {"", "h"}, cs \in {"", "mongodb://h"}, pt \in {0, 27017}}
OtherConfigs == {[MySQLConfig EXCEPT !.type = ""], [MySQLConfig EXCEPT !.type = "oracle"]}
FactoryConfigs ==
  SQLConfigs \cup SQLiteConfigs \cup SupabaseConfigs \cup MongoConfigs \cup OtherConfigs

\* DatabaseFactory.createConnection(id, config) called by itself: what it
\* throws or constructs, and the port it leaves in the config.
CreateConnection(id, config) ==
  /\ ops < MaxFactoryOps
  /\ ops' = ops + 1
  /\ lastCall' = [op |-> "createConnection", id |-> id, config |-> config,
                  result |-> createConnection(config), adapter |-> adapterClass(config),
                  port |-> IF config.type \in DATABASE_TYPES /\ validateConfig(config) = ""
                           THEN validatedPort(config) ELSE config.port]
  /\ UNCHANGED <<configs, retryAttempts, connections, currentDatabase, initPc>>
  /\ UNCHANGED <<adapterVars, taskVars, secVars, now, queryVars>>

\* The factory called for configs of every kind.
InitCreate ==
  /\ Constructed
  /\ configs = [c \in ConfigIdSet |-> MySQLConfig]
  /\ retryAttempts = 1
  /\ rateLimits = <<>>
  /\ securityConfig = DefaultSecurityConfig

NextCreate == \E id \in ConfigIdSet, config \in FactoryConfigs : CreateConnection(id, config)

SpecCreate == InitCreate /\ [][NextCreate]_vars

\* The config maps initialize() is given here: for every kind the configs
\* validateConfig rejects, and the complete configs whose adapter is a
\* MySQLConnection or for which no adapter exists.
ManagerConfigs ==
  {config \in FactoryConfigs :
     /\ config.type # "oracle"
     /\ config.type \in SQLTypes \cup {""} =>
          config.port # 0 /\ config.password # "" /\ config.database # ""
     /\ config.type = "mongodb" => config.port # 0
     /\ \/ createConnection(config) # ""
        \/ adapterClass(config) = "MySQLConnection"}

\* initialize() of such a config map with retryAttempts 1, and the factory
\* called by itself for the same configs.
InitFactory ==
  /\ ManagerConstructedWith(ManagerConfigs)
  /\ GateConstructed
  /\ retryAttempts = 1
  /\ rateLimits = <<>>
  /\ securityConfig = DefaultSecurityConfig

NextFactory ==
  \/ \E c \in ConfigIdSet : CreateConnection(c, configs[c])
  \/ Initialize
  \/ \E c \in ConfigIdSet, ok \in BOOLEAN : ConnectPing(c, ok)
  \/ InitializeFinish

SpecFactory == InitFactory /\ [][NextFactory]_vars

\* The fields validateConfig requires of a kind: one field of every group.
RequiredFields(type) ==
  CASE type \in SQLTypes -> {{"host"}, {"user"}}
    [] type = "sqlite" -> {{"file", "database"}}
    [] type = "supabase" -> {{"projectUrl"}, {"anonKey", "serviceKey"}}
    [] type = "mongodb" -> {{"connectionString", "host"}}
    [] OTHER -> {}

\* The groups of required fields of which the config has none.
MissingGroups(config) ==
  {g \in RequiredFields(config.type) : \A f \in g : config[f] = ""}

\* The config lacks a field its declared kind requires, or the kind itself.
Lacks(config) == config.type = "" \/ MissingGroups(config) # {}

\* The config fields an error message of the factory names.
FieldsNamed(message) ==
  CASE message \in {HostRequired(t) : t \in SQLTypes} -> {"host"}
    [] message \in {UserRequired(t) : t \in SQLTypes} -> {"user"}
    [] message = "File path or database name is required for SQLite database" ->
         {"file", "database"}
    [] message = "Project URL is required for Supabase database" -> {"projectUrl"}
    [] message = "Either anon key or service key is required for Supabase database" ->
         {"anonKey", "serviceKey"}
    [] message = "Either connection string or host is required for MongoDB database" ->
         {"connectionString", "host"}
    [] message = "Database type is required" -> {"type"}
    [] OTHER -> {}

\* The message names a field the config lacks.
NamesMissing(config, message) ==
  IF config.type = "" THEN FieldsNamed(message) = {"type"}
  ELSE FieldsNamed(message) \in MissingGroups(config)

\* The step is the call createConnection(id, config).
CreateStep(id, config) ==
  /\ ops' = ops + 1 /\ lastCall'.op = "createConnection"
  /\ lastCall'.id = id /\ lastCall'.config = config

\* C18: for every config that lacks a field its declared kind requires,
\* createConnection throws an error that names a missing field and
\* constructs no adapter; once initialize() has run its initializeConnection
\* calls, the id of such a config is not registered and no connect() call
\* was made or is under way for it.
C18_FactoryValidation ==
  /\ [][\A c \in ConfigIdSet :
          CreateStep(c, configs[c]) /\ Lacks(configs[c]) =>
            /\ lastCall'.result # ""
            /\ NamesMissing(configs[c], lastCall'.result)
            /\ lastCall'.adapter = ""]_vars
  /\ [](initPc # "new" =>
          \A c \in ConfigIdSet :
            Lacks(configs[c]) =>
              /\ c \notin Registered
              /\ calls[c] = 0 /\ answers[c] = <<>> /\ task[c] = Idle
              /\ ~isConnected[c] /\ ~pool[c])

\* initialize() has completed for a Supabase config without keys and a
\* complete mysql config: only the latter is registered and connected, and
\* the factory, called for the former, named the keys.
C18_Witness ==
  /\ initPc = "done"
  /\ configs["db1"].type = "supabase" /\ configs["db1"].projectUrl # ""
  /\ configs["db2"] = MySQLConfig
  /\ connections = <<"db2">> /\ isConnected["db2"] /\ calls["db1"] = 0
  /\ lastCall.op = "createConnection" /\ lastCall.id = "db1"
  /\ lastCall.result = "Either anon key or service key is required for Supabase database"

\* The adapter classes that serve a kind.
AdaptersOf(type) ==
  CASE type \in {"mysql", "planetscale"} -> {"MySQLConnection"}
    [] type = "postgresql" -> {"PostgreSQLConnection"}
    [] type = "sqlite" -> {"SQLiteConnection"}
    [] type = "supabase" -> {"SupabaseConnection"}
    [] type = "mongodb" -> {"MongoDBConnection"}
    [] OTHER -> {}

\* C19: for every kind getSupportedTypes lists and every config that has
\* the fields the kind requires, createConnection does not throw and
\* returns an adapter of that kind.
C19_FactoryDispatch ==
  [][\A id \in ConfigIdSet, config \in FactoryConfigs :
       CreateStep(id, config) /\ isTypeSupported(config.type) /\ ~Lacks(config) =>
         /\ lastCall'.result = ""
         /\ lastCall'.adapter \in AdaptersOf(config.type)]_vars

\* ------------------------------------------- adapters of every kind
\* connect() calls made on the adapters.
MaxAdapterOps == 4

\* A complete config for each adapter class among the connectors.
SQLiteConfig == [NoConfig EXCEPT !.type = "sqlite", !.file = "f"]
SupabaseConfig == [NoConfig EXCEPT !.type = "supabase", !.projectUrl = "https://p", !.anonKey = "a"]
\* A config for a FirestoreConnection, which the factory does not build:
\* serviceAccountKey stands for the project_id of the JSON it holds.
FirestoreConfig == [NoConfig EXCEPT !.type = "firestore", !.serviceAccountKey = "p"]
AdapterConfigs == {MySQLConfig, SQLiteConfig, SupabaseConfig, FirestoreConfig}

\* The class of the adapter built for a config.
classOf(config) ==
  IF config.type = "firestore" THEN "FirestoreConnection" ELSE adapterClass(config)

\* connect() returns: setConnected(true).
connectReturns(L) == [setConnected(L, TRUE, NoError) EXCEPT !.task = Idle]

\* The catch of connect(): logError, setConnected(false, message), throw.
connectThrows(L, error) ==
  [setConnected(logError(L, error), FALSE, error) EXCEPT !.task = Idle]

\* What connect() reports to its caller: whether it returned or threw, and
\* how the liveness probe it made ended ("none": it made none).
ConnectCall(c, result, probe, error) ==
  [op |-> "connect", id |-> c, result |-> result, probe |-> probe, error |-> error]

\* MySQLConnection.connect() up to its first await: the pool.end() of a
\* pool it still holds, else createPool and pool.getConnection().
mysqlConnect(L) ==
  IF L.pool
  THEN [L EXCEPT !.calls = @ + 1, !.task = [kind |-> "connect", pc |-> "disc", attempt |-> 0]]
  ELSE [L EXCEPT !.calls = @ + 1, !.task = [kind |-> "connect", pc |-> "ping", attempt |-> 0],
                 !.pool = TRUE]

MySQLConnect(c) ==
  /\ ops < MaxAdapterOps
  /\ adapterClass(configs[c]) = "MySQLConnection"
  /\ task[c] = Idle
  /\ Apply(c, mysqlConnect(Local(c)))
  /\ ops' = ops + 1
  /\ lastCall' = ConnectCall(c, "pending", "none", NoError)
  /\ UNCHANGED <<configs, retryAttempts, connections, currentDatabase, initPc>>
  /\ UNCHANGED <<rateLimits, now, queryVars>>

\* MySQLConnection.connect(): the pool.end() of disconnect() has resolved
\* (the pool is dropped, a new one is created and pinged) or rejected
\* (disconnect() and then connect() throw).
MySQLPoolEnd(c, ok) ==
  /\ task[c].kind = "connect" /\ task[c].pc = "disc"
  /\ LET L == Local(c)
     IN Apply(c, IF ok
                 THEN [setConnected(L, FALSE, NoError) EXCEPT !.pool = TRUE, !.task.pc = "ping"]
                 ELSE connectThrows(L, <<"pool.end", 0>>))
  /\ lastCall' = IF ok THEN lastCall ELSE ConnectCall(c, "threw", "none", <<"pool.end", 0>>)
  /\ UNCHANGED <<configs, retryAttempts, connections, currentDatabase, initPc, ops>>
  /\ UNCHANGED <<rateLimits, now, queryVars>>

\* MySQLConnection.connect(): getConnection() and ping() have resolved, or
\* one of them rejected.
MySQLPing(c, ok) ==
  /\ task[c].kind = "connect" /\ task[c].pc = "ping"
  /\ Apply(c, IF ok THEN connectReturns(Local(c))
              ELSE connectThrows(Local(c), <<"ping", 0>>))
  /\ lastCall' = IF ok THEN ConnectCall(c, "returned", "ok", NoError)
                 ELSE ConnectCall(c, "threw", "failed", <<"ping", 0>>)
  /\ UNCHANGED <<configs, retryAttempts, connections, currentDatabase, initPc, ops>>
  /\ UNCHANGED <<rateLimits, now, queryVars>>

\* SQLiteConnection.connect(), which awaits nothing but the disconnect() of
\* a database it still holds: db.close() succeeds or throws (closed), then
\* new Database() throws (answer "open"), the SELECT 1 on it throws
\* ("probe"), or both succeed ("ok").
sqliteConnect(L, closed, answer) ==
  LET L0 == [L EXCEPT !.calls = @ + 1]
      L1 == IF L0.pool /\ closed
            THEN setConnected([L0 EXCEPT !.pool = FALSE], FALSE, NoError)
            ELSE L0
  IN IF L0.pool /\ ~closed THEN connectThrows(L1, <<"close", 0>>)
     ELSE CASE answer = "open" -> connectThrows(L1, <<"open", 0>>)
            [] answer = "probe" -> connectThrows([L1 EXCEPT !.pool = TRUE], <<"SELECT 1", 0>>)
            [] answer = "ok" -> connectReturns([L1 EXCEPT !.pool = TRUE])

SQLiteConnect(c, closed, answer) ==
  /\ ops < MaxAdapterOps
  /\ adapterClass(configs[c]) = "SQLiteConnection"
  /\ task[c] = Idle
  /\ pool[c] \/ closed
  /\ Apply(c, sqliteConnect(Local(c), closed, answer))
  /\ ops' = ops + 1
  /\ lastCall' = IF pool[c] /\ ~closed THEN ConnectCall(c, "threw", "none", <<"close", 0>>)
                 ELSE CASE answer = "open" -> ConnectCall(c, "threw", "none", <<"open", 0>>)
                        [] answer = "probe" -> ConnectCall(c, "threw", "failed", <<"SELECT 1", 0>>)
                        [] answer = "ok" -> ConnectCall(c, "returned", "ok", NoError)
  /\ UNCHANGED <<configs, retryAttempts, connections, currentDatabase, initPc>>
  /\ UNCHANGED <<rateLimits, now, queryVars>>

\* SupabaseConnection.connect() up to the fetch of testConnection(): the
\* url and the keys are taken from the config (pool: the url is set).
SupabaseConnect(c) ==
  /\ ops < MaxAdapterOps
  /\ adapterClass(configs[c]) = "SupabaseConnection"
  /\ task[c] = Idle
  /\ Apply(c, [Local(c) EXCEPT !.calls = @ + 1, !.pool = TRUE,
                               !.task = [kind |-> "connect", pc |-> "probe", attempt |-> 0]])
  /\ ops' = ops + 1
  /\ lastCall' = ConnectCall(c, "pending", "none", NoError)
  /\ UNCHANGED <<configs, retryAttempts, connections, currentDatabase, initPc>>
  /\ UNCHANGED <<rateLimits, now, queryVars>>

\* SupabaseConnection.testConnection() after its fetch: a response that is
\* ok marks the adapter connected; a rejection or another response is
\* caught, recorded, and false is returned.
supabaseProbed(L, ok) ==
  IF ok THEN setConnected(L, TRUE, NoError)
  ELSE setConnected(logError(L, <<"testConnection", 0>>), FALSE, <<"testConnection", 0>>)

\* SupabaseConnection.connect(): testConnection() has returned; its result
\* is not looked at, setConnected(true) follows and connect() returns.
SupabaseProbe(c, ok) ==
  /\ task[c].kind = "connect" /\ task[c].pc = "probe"
  /\ Apply(c, connectReturns(supabaseProbed(Local(c), ok)))
  /\ lastCall' = IF ok THEN ConnectCall(c, "returned", "ok", NoError)
                 ELSE ConnectCall(c, "returned", "failed", <<"testConnection", 0>>)
  /\ UNCHANGED <<configs, retryAttempts, connections, currentDatabase, initPc, ops>>
  /\ UNCHANGED <<rateLimits, now, queryVars>>

\* What an adapter call reports to its caller: whether it returned (and
\* what) or threw, and how the liveness probe it made ended.
AdapterCall(op, c, result, probe, error) ==
  [op |-> op, id |-> c, result |-> result, probe |-> probe, error |-> error]

\* The task of an adapter call waiting at pc.
Waiting(kind, pc) == [kind |-> kind, pc |-> pc, attempt |-> 0]

\* The appInstances map without the entry of name.
Without(apps, name) == [n \in DOMAIN apps \ {name} |-> apps[n]]

\* `app-${serviceAccount.project_id}`
AppNameOf(config) == config.serviceAccountKey

\* FirestoreConnection.disconnect() up to its await or its return, for an
\* adapter left as L with appName name: the connectionCount of the app that
\* name still finds in the map is decremented; at 0 app.delete() is awaited
\* (pending), otherwise db is dropped and the adapter marked disconnected.
firestoreDisconnect(L, name, apps) ==
  LET found == name # "" /\ name \in DOMAIN apps
      apps1 == IF found THEN [apps EXCEPT ![name] = @ - 1] ELSE apps
      pending == found /\ apps1[name] = 0
  IN [pending |-> pending,
      apps |-> apps1,
      L |-> IF pending THEN L
            ELSE setConnected([L EXCEPT !.pool = FALSE], FALSE, NoError)]

\* FirestoreConnection.connect() from JSON.parse on, up to the await of the
\* probe: the app of the project is looked up or initialized (initializeApp
\* throws when ~opened), the db handle taken and the app's connectionCount
\* incremented.
firestoreOpen(L, config, apps, opened) ==
  LET name == AppNameOf(config)
      apps1 == IF name \in DOMAIN apps THEN apps ELSE (name :> 0) @@ apps
  IN IF name \notin DOMAIN apps /\ ~opened
     THEN [name |-> name, apps |-> apps, L |-> connectThrows(L, <<"initializeApp", 0>>)]
     ELSE [name |-> name,
           apps |-> [apps1 EXCEPT ![name] = @ + 1],
           L |-> [L EXCEPT !.pool = TRUE, !.task = Waiting("connect", "fprobe")]]

\* FirestoreConnection.connect() up to its first await: the disconnect() of
\* a db it still holds (which may await app.delete()), then the opening.
FirestoreConnect(c, opened) ==
  /\ ops < MaxAdapterOps
  /\ classOf(configs[c]) = "FirestoreConnection"
  /\ task[c] = Idle
  /\ LET L == [Local(c) EXCEPT !.calls = @ + 1]
         D == firestoreDisconnect(L, appName[c], appInstances)
         O == IF pool[c] THEN firestoreOpen(D.L, configs[c], D.apps, opened)
              ELSE firestoreOpen(L, configs[c], appInstances, opened)
     IN IF pool[c] /\ D.pending
        THEN /\ opened
             /\ ApplyWith(c, [L EXCEPT !.task = Waiting("connect", "cdel")],
                          appName[c], D.apps)
             /\ lastCall' = AdapterCall("connect", c, "pending", "none", NoError)
        ELSE /\ ApplyWith(c, O.L, O.name, O.apps)
             /\ lastCall' = IF O.L.task = Idle
                            THEN AdapterCall("connect", c, "threw", "none", <<"initializeApp", 0>>)
                            ELSE AdapterCall("connect", c, "pending", "none", NoError)
  /\ ops' = ops + 1
  /\ UNCHANGED <<configs, retryAttempts, connections, currentDatabase, initPc>>
  /\ UNCHANGED <<rateLimits, now, queryVars>>

\* FirestoreConnection.connect(): the app.delete() of its disconnect() has
\* resolved (the map entry goes, db is dropped, and the opening follows) or
\* rejected (disconnect() and then connect() throw).
FirestoreDeleted(c, ok, opened) ==
  /\ task[c] = Waiting("connect", "cdel")
  /\ LET L == setConnected([Local(c) EXCEPT !.pool = FALSE], FALSE, NoError)
         O == firestoreOpen(L, configs[c], Without(appInstances, appName[c]), opened)
     IN IF ok
        THEN /\ ApplyWith(c, O.L, O.name, O.apps)
             /\ lastCall' = IF O.L.task = Idle
                            THEN AdapterCall("connect", c, "threw", "none", <<"initializeApp", 0>>)
                            ELSE lastCall
        ELSE /\ opened
             /\ Apply(c, connectThrows(Local(c), <<"app.delete", 0>>))
             /\ lastCall' = AdapterCall("connect", c, "threw", "none", <<"app.delete", 0>>)
  /\ UNCHANGED <<configs, retryAttempts, connections, currentDatabase, initPc, ops>>
  /\ UNCHANGED <<rateLimits, now, queryVars>>

\* FirestoreConnection.testConnection() after listCollections(): marks the
\* adapter connected, or catches the failure, records it and returns false.
firestoreProbed(L, ok) ==
  IF ok THEN setConnected(L, TRUE, NoError)
  ELSE setConnected(logError(L, <<"testConnection", 0>>), FALSE, <<"testConnection", 0>>)

\* FirestoreConnection.connect(): testConnection() has returned; its result
\* is not looked at, setConnected(true) follows and connect() returns.
FirestoreProbe(c, ok) ==
  /\ task[c] = Waiting("connect", "fprobe")
  /\ Apply(c, connectReturns(firestoreProbed(Local(c), ok)))
  /\ lastCall' = IF ok THEN AdapterCall("connect", c, "returned", "ok", NoError)
                 ELSE AdapterCall("connect", c, "returned", "failed", <<"testConnection", 0>>)
  /\ UNCHANGED <<configs, retryAttempts, connections, currentDatabase, initPc, ops>>
  /\ UNCHANGED <<rateLimits, now, queryVars>>

\* A disconnect() that ran to its end: the handle is dropped and
\* setConnected(false) clears the last error.
disconnected(L) == setConnected([L EXCEPT !.pool = FALSE], FALSE, NoError)

\* The catch of disconnect(): logError, throw.
disconnectThrows(L, error) == [logError(L, error) EXCEPT !.task = Idle]

\* disconnect() of the adapter c up to its first await or its return.
\* MySQLConnection awaits the pool.end() of a pool it holds;
\* SQLiteConnection closes its db at once (db.close() throws when ~closed);
\* SupabaseConnection only forgets its url and keys; FirestoreConnection
\* releases its share of the app.
AdapterDisconnect(c, closed) ==
  /\ ops < MaxAdapterOps
  /\ task[c] = Idle
  /\ (pool[c] /\ classOf(configs[c]) = "SQLiteConnection") \/ closed
  /\ LET L == Local(c)
         class == classOf(configs[c])
         D == firestoreDisconnect(L, appName[c], appInstances)
         returned == AdapterCall("disconnect", c, "returned", "none", NoError)
         pending == AdapterCall("disconnect", c, "pending", "none", NoError)
     IN CASE class = "MySQLConnection" ->
               IF pool[c]
               THEN /\ Apply(c, [L EXCEPT !.task = Waiting("disconnect", "dend")])
                    /\ lastCall' = pending
               ELSE Apply(c, disconnected(L)) /\ lastCall' = returned
          [] class = "SQLiteConnection" ->
               IF pool[c] /\ ~closed
               THEN /\ Apply(c, disconnectThrows(L, <<"close", 0>>))
                    /\ lastCall' = AdapterCall("disconnect", c, "threw", "none", <<"close", 0>>)
               ELSE Apply(c, disconnected(L)) /\ lastCall' = returned
          [] class = "SupabaseConnection" ->
               Apply(c, disconnected(L)) /\ lastCall' = returned
          [] class = "FirestoreConnection" ->
               IF D.pending
               THEN /\ ApplyWith(c, [L EXCEPT !.task = Waiting("disconnect", "fdel")],
                                 appName[c], D.apps)
                    /\ lastCall' = pending
               ELSE ApplyWith(c, D.L, appName[c], D.apps) /\ lastCall' = returned
  /\ ops' = ops + 1
  /\ UNCHANGED <<configs, retryAttempts, connections, currentDatabase, initPc>>
  /\ UNCHANGED <<rateLimits, now, queryVars>>

\* disconnect(): the pool.end() (MySQLConnection) or the app.delete()
\* (FirestoreConnection, which then drops the map entry) it awaited has
\* resolved, or rejected.
AdapterDisconnectEnd(c, ok) ==
  /\ task[c].kind = "disconnect"
  /\ LET L == [Local(c) EXCEPT !.task = Idle]
         error == IF task[c].pc = "dend" THEN <<"pool.end", 0>> ELSE <<"app.delete", 0>>
     IN IF ok
        THEN /\ ApplyWith(c, disconnected(L), appName[c],
                          IF task[c].pc = "fdel" THEN Without(appInstances, appName[c])
                          ELSE appInstances)
             /\ lastCall' = AdapterCall("disconnect", c, "returned", "none", NoError)
        ELSE /\ Apply(c, disconnectThrows(L, error))
             /\ lastCall' = AdapterCall("disconnect", c, "threw", "none", error)
  /\ UNCHANGED <<configs, retryAttempts, connections, currentDatabase, initPc, ops>>
  /\ UNCHANGED <<rateLimits, now, queryVars>>

\* The catch of testConnection() without its logError.
probeFailedUnrecorded(L, error) == [L EXCEPT !.ic = FALSE, !.task = Idle]

\* The catch of testConnection(): logError, setConnected(false, message),
\* return false.
probeFailed(L, error) ==
  [setConnected(logError(L, error), FALSE, error) EXCEPT !.task = Idle]

\* testConnection(): the probe succeeded, setConnected(true), return true.
probeSucceeded(L) == [setConnected(L, TRUE, NoError) EXCEPT !.task = Idle]

\* testConnection() of the adapter c up to its first await or its return:
\* false at once without a handle (pool, db, url); SQLiteConnection runs
\* its SELECT 1 at once (it throws when ~alive); the others await their
\* probe (ping, GET /rest/v1/, listCollections).
AdapterTestConnection(c, alive) ==
  /\ ops < MaxAdapterOps
  /\ task[c] = Idle
  /\ (pool[c] /\ classOf(configs[c]) = "SQLiteConnection") \/ alive
  /\ LET L == Local(c)
     IN IF ~pool[c]
        THEN /\ Apply(c, L)
             /\ lastCall' = AdapterCall("testConnection", c, "false", "none", NoError)
        ELSE IF classOf(configs[c]) = "SQLiteConnection"
        THEN IF alive
             THEN /\ Apply(c, probeSucceeded(L))
                  /\ lastCall' = AdapterCall("testConnection", c, "true", "ok", NoError)
             ELSE /\ Apply(c, probeFailed(L, <<"SELECT 1", 0>>))
                  /\ lastCall' = AdapterCall("testConnection", c, "false", "failed",
                                             <<"SELECT 1", 0>>)
        ELSE /\ Apply(c, [L EXCEPT !.task = Waiting("testConnection", "tprobe")])
             /\ lastCall' = AdapterCall("testConnection", c, "pending", "none", NoError)
  /\ ops' = ops + 1
  /\ UNCHANGED <<configs, retryAttempts, connections, currentDatabase, initPc>>
  /\ UNCHANGED <<rateLimits, now, queryVars>>

\* testConnection(): the probe it awaited has resolved (for Supabase: with
\* a response that is ok) or failed.
AdapterProbe(c, ok) ==
  /\ task[c] = Waiting("testConnection", "tprobe")
  /\ IF ok
     THEN /\ Apply(c, probeSucceeded(Local(c)))
          /\ lastCall' = AdapterCall("testConnection", c, "true", "ok", NoError)
     ELSE /\ Apply(c, probeFailed(Local(c), <<"testConnection", 0>>))
          /\ lastCall' = AdapterCall("testConnection", c, "false", "failed",
                                     <<"testConnection", 0>>)
  /\ UNCHANGED <<configs, retryAttempts, connections, currentDatabase, initPc, ops>>
  /\ UNCHANGED <<rateLimits, now, queryVars>>

\* Adapters of one class (adapters of different classes share no state),
\* built for complete configs and not yet connected.
InitAdapter ==
  /\ ManagerConstructedWith(AdapterConfigs)
  /\ \A c, d \in ConfigIdSet : configs[c] = configs[d]
  /\ GateConstructed
  /\ retryAttempts = 1
  /\ rateLimits = <<>>
  /\ securityConfig = DefaultSecurityConfig

NextAdapter ==
  \/ \E c \in ConfigIdSet : MySQLConnect(c)
  \/ \E c \in ConfigIdSet, ok \in BOOLEAN : MySQLPoolEnd(c, ok)
  \/ \E c \in ConfigIdSet, ok \in BOOLEAN : MySQLPing(c, ok)
  \/ \E c \in ConfigIdSet, closed \in BOOLEAN, answer \in {"ok", "open", "probe"} :
       SQLiteConnect(c, closed, answer)
  \/ \E c \in ConfigIdSet : SupabaseConnect(c)
  \/ \E c \in ConfigIdSet, ok \in BOOLEAN : SupabaseProbe(c, ok)
  \/ \E c \in ConfigIdSet, opened \in BOOLEAN : FirestoreConnect(c, opened)
  \/ \E c \in ConfigIdSet, ok \in BOOLEAN, opened \in BOOLEAN : FirestoreDeleted(c, ok, opened)
  \/ \E c \in ConfigIdSet, ok \in BOOLEAN : FirestoreProbe(c, ok)
  \/ \E c \in ConfigIdSet, closed \in BOOLEAN : AdapterDisconnect(c, closed)
  \/ \E c \in ConfigIdSet, ok \in BOOLEAN : AdapterDisconnectEnd(c, ok)
  \/ \E c \in ConfigIdSet, alive \in BOOLEAN : AdapterTestConnection(c, alive)
  \/ \E c \in ConfigIdSet, ok \in BOOLEAN : AdapterProbe(c, ok)

SpecAdapter == InitAdapter /\ [][NextAdapter]_vars

\* C20: when the liveness probe of a connect() fails, connect() throws, the
\* adapter reports disconnected and its last error is that error; connect()
\* returns normally only when the probe succeeded.
C20_ConnectFailure ==
  lastCall.op = "connect" =>
    /\ lastCall.probe = "failed" =>
         /\ lastCall.result = "threw"
         /\ ~isConnected[lastCall.id]
         /\ lastError[lastCall.id] = lastCall.error
    /\ lastCall.result = "returned" => lastCall.probe = "ok"

\* ------------------------------------------------------------ C21 - C30
\* The step is the call of op on the adapter c.
AdapterCalled(op, c) == ops' = ops + 1 /\ lastCall'.op = op /\ lastCall'.id = c

\* C21: disconnect() called on an adapter that is already disconnected (it
\* reports disconnected and holds no handle) returns at once without an
\* error and changes nothing: not the adapter's state and not the
\* appInstances map the Firestore adapters share.
C21_DisconnectNoOp ==
  [][\A c \in ConfigIdSet :
       AdapterCalled("disconnect", c) /\ ~isConnected[c] /\ ~pool[c] =>
         /\ lastCall'.result = "returned"
         /\ isConnected'[c] = isConnected[c] /\ pool'[c] = pool[c]
         /\ lastError'[c] = lastError[c]
         /\ appName' = appName /\ appInstances' = appInstances]_vars

C22_QueryTargetResolution ==
  [][QueryCalled =>
       LET target == IF q'.id # NoDatabase THEN q'.id ELSE currentDatabase
           expected == CASE target = NoDatabase -> "NoCurrent"
                         [] target # NoDatabase /\ target \notin Registered -> "NotFound"
                         [] target \in Registered /\ ~isConnected[target] -> "Inactive"
                         [] OTHER -> "resolved"
       IN /\ q'.target = target
          /\ IF expected = "resolved"
             THEN q'.error \notin ResolutionErrors
             ELSE /\ q'.stage = "threw" /\ q'.error = expected
                  /\ q'.trace = <<>> /\ ~ReachedAdapter'
                  /\ UNCHANGED <<adapterVars, secVars>>]_vars

\* A query for db2, which is registered but whose connect failed, while db1
\* is the current database: the not-active error.
C22_Witness ==
  /\ q.stage = "threw" /\ q.error = "Inactive" /\ q.id = "db2"
  /\ currentDatabase = "db1" /\ "db2" \in Registered /\ ~isConnected["db2"]

\* The number of adapter.query entries of a trace.
AdapterQueries(trace) == Cardinality({i \in 1..Len(trace) : trace[i][1] = "adapter.query"})

\* The events a step appended to the log.
Appended == SubSeq(events', Len(events) + 1, Len(events'))

\* C23: a query() call hands its statement to the adapter at most once, it
\* does so in the step of the call and never again; when the adapter
\* throws, query() logs exactly one event of severity error (query_failed,
\* for the target) and throws the adapter's error.
C23_NoQueryRetry ==
  [][/\ QueryCalled => AdapterQueries(q'.trace) <= 1
     /\ ~QueryCalled => q'.trace = q.trace /\ q'.sql = q.sql /\ q'.target = q.target
     /\ (q.stage = "adapter" /\ q'.stage = "threw") =>
          /\ q'.error = "AdapterError"
          /\ lastError'[q.target] = <<"query", 0>>
          /\ Len(SelectSeq(Appended, LAMBDA e : e.severity = "error")) = 1
          /\ Appended = <<Ev("query_failed", q.target, "error")>>]_vars

\* The adapter threw on the one statement handed to it.
C23_Witness ==
  /\ q.stage = "threw" /\ q.error = "AdapterError" /\ AdapterQueries(q.trace) = 1
  /\ lastError[q.target] = <<"query", 0>>
  /\ Len(events) > 0 /\ events[Len(events)].event = "query_failed"

\* reconnectDatabase(c) returns in this step with the value ok: it logs
\* connection_reconnected before `return true` and
\* connection_reconnect_failed before `return false`.
ReconnectReturned(c, ok) ==
  \E i \in 1..Len(Appended) :
    Appended[i] = Ev(IF ok THEN "connection_reconnected" ELSE "connection_reconnect_failed",
                     c, IF ok THEN "info" ELSE "error")

\* C24: reconnectDatabase(id) of a registered id returns true only if the
\* adapter ended connected, and whenever it returns false the adapter is
\* left not connected, its operation is over and an error-severity event
\* has been logged.
C24_FailedReconnect ==
  [][\A c \in ConfigIdSet :
       /\ ReconnectReturned(c, TRUE) => isConnected'[c] /\ task'[c] = Idle
       /\ ReconnectReturned(c, FALSE) =>
            /\ ~isConnected'[c]
            /\ task'[c] = Idle
            /\ \E i \in 1..Len(Appended) :
                 Appended[i].severity = "error" /\ Appended[i].databaseId = c]_vars

\* The part of C24 the code keeps: a reconnect that returns true leaves the
\* adapter connected, and one that returns false after its disconnect()
\* went through leaves it not connected.
C24_ReconnectOutcome ==
  [][\A c \in ConfigIdSet :
       /\ ReconnectReturned(c, TRUE) => isConnected'[c] /\ task'[c] = Idle
       /\ ReconnectReturned(c, FALSE) /\ task[c].pc # "rdisc" =>
            ~isConnected'[c] /\ task'[c] = Idle]_vars

\* A health-check run starts in this step: a probe of a connection at rest
\* is in flight after it.
HealthRunStarts == \E c \in ConfigIdSet : task[c] = Idle /\ task'[c].kind = "health"

\* C25: the step that starts a health-check run starts the probe of every
\* registered connection (a connection without a pool has been probed
\* already: its testConnection() returned false at once), so no probe waits
\* for another one; and a step of one connection's probe or reconnect
\* (failed or not) leaves the adapters and the checks of the other
\* connections as they are.
C25_HealthCheckIsolation ==
  [][/\ HealthRunStarts =>
          \A d \in Registered :
            IF pool[d]
            THEN task'[d] = [kind |-> "health", pc |-> "probe", attempt |-> 0]
            ELSE task'[d].kind # "health"
     /\ \A c \in ConfigIdSet :
          task[c].kind \in {"health", "reconnect"} /\ task'[c] # task[c] =>
            \A d \in ConfigIdSet \ {c} :
              /\ task'[d] = task[d]
              /\ isConnected'[d] = isConnected[d]
              /\ pool'[d] = pool[d]
              /\ lastError'[d] = lastError[d]]_vars

\* The probe of db1 has failed while the probe of db2, started in the same
\* run, has not answered yet.
C25_Witness ==
  /\ Registered = ConfigIdSet
  /\ task["db1"] = Idle
  /\ lastError["db1"] = <<"probe", 0>>
  /\ ~isConnected["db1"]
  /\ task["db2"] = [kind |-> "health", pc |-> "probe", attempt |-> 0]

\* The verdict a statement gets by its text: UnionSelect matches
\* /union.*select/i, TwoSelects matches no pattern and is short.
VerdictOf(sql) ==
  IF sql = UnionSelect
  THEN [isValid |-> FALSE, reason |-> "Suspicious SQL pattern detected"]
  ELSE [isValid |-> TRUE, reason |-> ""]

\* C26: the verdict of validateQuery (accept or reject, and the reason) is
\* a function of the statement's text alone: whatever log, metrics,
\* rate-limit counters and clock the gate has, a statement gets the same
\* verdict, and a call repeated on the gate its predecessor left behind
\* repeats the verdict.
C26_DeterministicRejection ==
  /\ [](lastCall.op = "validateQuery" => lastCall.result = VerdictOf(lastCall.sql))
  /\ [][lastCall.op = "validateQuery" /\ GateCall("validateQuery")
          /\ lastCall'.sql = lastCall.sql => lastCall'.result = lastCall.result]_vars

\* TwoSelects was accepted by a gate whose log already held a
\* suspicious_query_detected event of the same databaseId.
C26_Witness ==
  /\ lastCall.op = "validateQuery"
  /\ lastCall.sql = TwoSelects
  /\ lastCall.result.isValid
  /\ Len(events) >= 2
  /\ \E i \in 1..Len(events) :
       events[i].event = "suspicious_query_detected" /\ events[i].databaseId = lastCall.id

\* ------------------------------------------------------ testAllConnections
\* Promise.race in place of Promise.allSettled: settled as soon as one is.
firstSettled(pending) == TRUE

\* Promise.allSettled(promises) resolves once none of them is pending.
allSettled(pending) == pending = {}

\* One mapper of testAllConnections up to its first await: without a pool
\* testConnection() returns false at once, else its ping is in flight.
testAllStart(L) ==
  IF L.pool
  THEN [L EXCEPT !.task = [kind |-> "testall", pc |-> "tall", attempt |-> 0]]
  ELSE L

\* The caller calls testAllConnections() on a manager at rest: the mappers
\* of all registered connections run up to their await; results holds the
\* booleans assigned so far.
TestAllConnections ==
  /\ initPc = "done"
  /\ ops < MaxOps
  /\ \A c \in ConfigIdSet : task[c] = Idle
  /\ ops' = ops + 1
  /\ LET F == [c \in Registered |-> testAllStart(Local(c))]
         pinged == {c \in Registered : pool[c]}
     IN /\ ApplyAll(F, connections)
        /\ lastCall' = [op |-> "testAllConnections", id |-> NoDatabase,
                        result |-> IF allSettled(pinged) THEN "returned" ELSE "pending",
                        results |-> [c \in Registered \ pinged |-> FALSE]]
  /\ UNCHANGED <<configs, retryAttempts, connections, currentDatabase, initPc, rateLimits, now,
                 queryVars>>

\* The ping of one testConnection() of testAllConnections has resolved or
\* rejected: the mapper stores the boolean; the call returns results when
\* this was the last mapper pending.
TestAllProbe(c, ok) ==
  /\ task[c].pc = "tall"
  /\ Apply(c, [testConnection(Local(c), ok) EXCEPT !.task = Idle])
  /\ LET pending == {d \in ConfigIdSet \ {c} : task[d].kind = "testall"}
     IN lastCall' = [lastCall EXCEPT !.results = (c :> ok) @@ @,
                                     !.result = IF allSettled(pending) THEN "returned"
                                                ELSE "pending"]
  /\ UNCHANGED <<configs, retryAttempts, connections, currentDatabase, initPc, ops, rateLimits,
                 now, queryVars>>

\* A manager is initialized, its connections are tested and it is closed.
NextFanOut ==
  \/ Initialize
  \/ InitializeFinish
  \/ \E c \in ConfigIdSet, ok \in BOOLEAN : ConnectPing(c, ok)
  \/ TestAllConnections
  \/ \E c \in ConfigIdSet, ok \in BOOLEAN : TestAllProbe(c, ok)
  \/ Close
  \/ \E c \in ConfigIdSet, ok \in BOOLEAN : ClosePoolEnd(c, ok)
  \/ CloseFinish

SpecFanOut == InitClose /\ [][NextFanOut]_vars

\* initializeConnection(c) has settled: it logged its outcome.
InitSettled(c) ==
  /\ task[c].kind # "init"
  /\ \E i \in 1..Len(events) :
       /\ events[i].databaseId = c
       /\ events[i].event \in {"connection_initialized", "connection_initialization_failed"}

\* C27: initialize() has completed only if every initializeConnection has
\* settled; close() has completed (without throwing) only if the
\* disconnect() of every adapter has settled, ended or failed;
\* testAllConnections() has returned only if every probe has settled, and
\* its result holds one boolean for every registered id; a failed
\* connect, probe or disconnect changes none of this.
C27_WaitForAll ==
  /\ initPc \in {"done", "closing", "closed"} => \A c \in ConfigIdSet : InitSettled(c)
  /\ initPc = "closed" =>
       /\ lastCall = [op |-> "close", id |-> NoDatabase, result |-> "ok"]
       /\ \A c \in ConfigIdSet :
            task[c] = Idle /\ (pool[c] => lastError[c] = <<"pool.end", 0>>)
  /\ lastCall.op = "testAllConnections" =>
       /\ lastCall.result = "returned" <=> \A c \in ConfigIdSet : task[c].kind # "testall"
       /\ lastCall.result = "returned" =>
            /\ DOMAIN lastCall.results = Registered
            /\ \A c \in Registered : lastCall.results[c] \in BOOLEAN

\* testAllConnections() returned a boolean for both connections although
\* the probe of db1 failed.
C27_Witness ==
  /\ lastCall.op = "testAllConnections"
  /\ lastCall.result = "returned"
  /\ Registered = ConfigIdSet
  /\ lastCall.results = [c \in ConfigIdSet |-> c # "db1"]
  /\ lastError["db1"] = <<"probe", 0>>

\* ------------------------------------------- checkRateLimit, any ceiling
\* The ceilings a caller passes, the ceiling 0 among them.
BoundCeilings == {0, 1, 2}

NextRateBound ==
  \/ \E m \in BoundCeilings, w \in RateWindows : RateCall("db1", m, w)
  \/ \E w \in RateWindows : \E d \in RateTicks(w) : RateTick(d)

SpecRateBound == InitRate /\ [][NextRateBound]_vars

\* C29: for every ceiling max >= 0 a call that returns true is at most the
\* max-th call of its window, so that at most max calls return true between
\* one window start and the next; a rejected call changes neither the
\* counter nor the window start; and the window start the gate keeps is the
\* time of the first call made more than the window length after the
\* previous window start.
C29_RateLimitBound ==
  [][\A m \in BoundCeilings, w \in RateWindows :
       RateCall("db1", m, w) =>
         /\ lastCall'.result => lastCall'.n <= m
         /\ ~lastCall'.result => rateLimits' = rateLimits
         /\ rateLimits'["db1"].lastReset = lastCall'.start]_vars

\* The same with the bound the code keeps: the first call of a window
\* returns true whatever the ceiling, so at most max(1, max) calls of one
\* window return true.
C29_BoundAsCoded ==
  [][\A m \in BoundCeilings, w \in RateWindows :
       RateCall("db1", m, w) =>
         /\ lastCall'.result <=> (lastCall'.n <= Max(m, 1))
         /\ ~lastCall'.result => rateLimits' = rateLimits
         /\ rateLimits'["db1"].lastReset = lastCall'.start]_vars

\* ------------------------------- overlapping calls on one MySQLConnection
\* Calls made on the adapter in one run.
MaxPoolOps == 3

\* The adapter the calls are made on.
SqlAdapter == ConfigIds[1]

\* A call in flight: op is what the caller called (adapter.connect(),
\* adapter.disconnect() or manager.reconnectDatabase(id)); where says whether
\* it is inside connect() or in a disconnect() called from outside it; pc
\* is the await it is at ("end": pool.end(), "ping": getConnection/ping,
\* "probe": the ping of testConnection()) or
\* how it ended; p is the pool that await is about; overlaps tells whether
\* another call was in flight when this one was made.
NewCall(op) ==
  [op |-> op, where |-> IF op = "connect" THEN "connect" ELSE "disconnect",
   pc |-> "new", p |-> 0,
   overlaps |-> \E j \in 1..Len(inFlight) : inFlight[j].pc \in {"end", "ping", "probe"}]

\* The adapter and one call on it, for one synchronous section.
PoolLocal(c, call) ==
  [ic |-> isConnected[c], le |-> lastError[c], cur |-> poolOf[c], created |-> created,
   call |-> call, log |-> <<>>]

\* The call ends: result is "returned" or "threw" for connect() and
\* disconnect(), "true" or "false" for reconnectDatabase, which logs its
\* outcome.
finished(S, c, ok) ==
  IF S.call.op = "reconnect"
  THEN [S EXCEPT !.call.pc = IF ok THEN "true" ELSE "false",
                 !.call.p = 0,
                 !.log = Append(@, IF ok THEN Ev("connection_reconnected", c, "info")
                                    ELSE Ev("connection_reconnect_failed", c, "error"))]
  ELSE [S EXCEPT !.call.pc = IF ok THEN "returned" ELSE "threw", !.call.p = 0]

\* connect() without a pool to end: this.pool = mysql.createPool(...), then
\* the ping on it is awaited.
createPool(S) ==
  LET id == Len(S.created) + 1
  IN [S EXCEPT !.created = Append(@, "open"), !.cur = id,
               !.call.where = "connect", !.call.pc = "ping", !.call.p = id]

\* connect() up to its first await: a pool the adapter holds is ended first
\* (await this.disconnect()).
connectEnter(S) ==
  IF S.cur # 0
  THEN [S EXCEPT !.call.where = "connect", !.call.pc = "end", !.call.p = S.cur]
  ELSE createPool(S)

\* disconnect() has returned: connect() goes on to create its pool,
\* reconnectDatabase goes on to connectWithRetry (whose connect() looks at
\* this.pool afresh), disconnect()'s caller gets control back.
afterDisconnect(S, c) ==
  LET S1 == setConnected(S, FALSE, NoError)
  IN IF S1.call.where = "connect" THEN createPool(S1)
     ELSE IF S1.call.op = "reconnect" THEN connectEnter(S1)
     ELSE finished(S1, c, TRUE)

\* disconnect() up to its first await.
disconnectEnter(S, c) ==
  IF S.cur # 0
  THEN [S EXCEPT !.call.pc = "end", !.call.p = S.cur]
  ELSE afterDisconnect(S, c)

\* The variables after a section that left the adapter c and call k as S.
ApplyPool(c, k, S) ==
  /\ isConnected' = [isConnected EXCEPT ![c] = S.ic]
  /\ lastError' = [lastError EXCEPT ![c] = S.le]
  /\ pool' = [pool EXCEPT ![c] = S.cur # 0]
  /\ poolOf' = [poolOf EXCEPT ![c] = S.cur]
  /\ created' = S.created
  /\ inFlight' = IF k > Len(inFlight) THEN Append(inFlight, S.call)
                 ELSE [inFlight EXCEPT ![k] = S.call]
  /\ UNCHANGED <<healthTimers, singleton>>
  /\ LogAll(S.log)
  /\ UNCHANGED <<configs, retryAttempts, connections, currentDatabase, initPc, appName,
                 appInstances, taskVars, rateLimits, now, queryVars>>

\* A caller calls connect(), disconnect() or reconnectDatabase(id) on the
\* adapter, whatever other calls are in flight on it.
PoolCall(op) ==
  /\ initPc = "done"
  /\ SqlAdapter \in Registered
  /\ ops < MaxPoolOps
  /\ ops' = ops + 1
  /\ lastCall' = [op |-> op, id |-> SqlAdapter, result |-> "pending"]
  /\ LET S == PoolLocal(SqlAdapter, NewCall(op))
     IN ApplyPool(SqlAdapter, Len(inFlight) + 1,
                  IF op = "connect" THEN connectEnter(S) ELSE disconnectEnter(S, SqlAdapter))

\* The pool.end() call k awaits has resolved: disconnect() drops this.pool,
\* whichever pool that is by now, and marks the adapter disconnected.  Or
\* it has rejected: disconnect() records the error and throws, connect()
\* records it again, and reconnectDatabase returns false.
PoolEnded(k, ok) ==
  /\ k \in 1..Len(inFlight)
  /\ inFlight[k].pc = "end"
  /\ LET c == SqlAdapter
         S == PoolLocal(c, inFlight[k])
         ended == [S EXCEPT !.created[S.call.p] = "ended", !.cur = 0]
         E == <<"pool.end", 0>>
     IN ApplyPool(c, k,
                  IF ok THEN afterDisconnect(ended, c)
                  ELSE IF S.call.where = "connect"
                  THEN finished(setConnected(logError(S, E), FALSE, E), c, FALSE)
                  ELSE finished(logError(S, E), c, FALSE))
  /\ UNCHANGED <<ops, lastCall>>

\* The ping call k awaits has resolved (the adapter is marked connected) or
\* rejected (connect() records the error and throws; with retryAttempts 1
\* connectWithRetry throws it on and reconnectDatabase returns false).
PoolPinged(k, ok) ==
  /\ k \in 1..Len(inFlight)
  /\ inFlight[k].pc = "ping"
  /\ LET c == SqlAdapter
         S == PoolLocal(c, inFlight[k])
         E == <<"connect", 1>>
     IN ApplyPool(c, k,
                  IF ok THEN finished(setConnected(S, TRUE, NoError), c, TRUE)
                  ELSE finished(setConnected(logError(S, E), FALSE, E), c, FALSE))
  /\ UNCHANGED <<ops, lastCall>>

\* The events initialize() logged for the outcomes up, in the order of ids.
RECURSIVE initEvents(_, _)
initEvents(ids, up) ==
  IF ids = <<>> THEN <<>>
  ELSE <<Ev(IF up[Head(ids)] THEN "connection_initialized"
            ELSE "connection_initialization_failed",
            Head(ids), IF up[Head(ids)] THEN "info" ELSE "error")>>
       \o initEvents(Tail(ids), up)

\* A manager built with retryAttempts 1 after initialize() of MySQL
\* configs: every adapter is registered and holds the pool its connect()
\* created, whether the ping on it succeeded or not; no call is in flight.
InitPool ==
  /\ configs = [c \in ConfigIdSet |-> MySQLConfig]
  /\ retryAttempts = 1
  /\ connections = ConfigIds
  /\ initPc = "done"
  /\ isConnected \in [ConfigIdSet -> BOOLEAN]
  /\ lastError = [c \in ConfigIdSet |-> IF isConnected[c] THEN NoError ELSE <<"connect", 1>>]
  /\ currentDatabase = IF connectedIds = <<>> THEN NoDatabase ELSE connectedIds[1]
  /\ pool = [c \in ConfigIdSet |-> TRUE]
  /\ created = [i \in 1..NumConfigs |-> "open"]
  /\ poolOf = [c \in ConfigIdSet |-> CHOOSE i \in 1..NumConfigs : ConfigIds[i] = c]
  /\ inFlight = <<>>
  /\ healthTimers = startHealthChecks(0)
  /\ singleton = NoSingleton
  /\ appName = [c \in ConfigIdSet |-> ""]
  /\ appInstances = <<>>
  /\ task = [c \in ConfigIdSet |-> Idle]
  /\ calls = [c \in ConfigIdSet |-> 1]
  /\ waits = [c \in ConfigIdSet |-> <<>>]
  /\ answers = [c \in ConfigIdSet |-> <<isConnected[c]>>]
  /\ ops = 0
  /\ lastCall = [op |-> "none", id |-> NoDatabase, result |-> "none"]
  /\ now = 0
  /\ LET sec == logEvents([events |-> <<>>, metrics |-> (GlobalId :> ZeroMetrics)],
                          initEvents(ConfigIds, isConnected))
     IN events = sec.events /\ metrics = sec.metrics
  /\ rateLimits = <<>>
  /\ securityConfig = DefaultSecurityConfig
  /\ q = NoQuery
  /\ queries = 0

\* InitPool but for the three variables that tell the pools apart.
InitPoolLifecycle ==
  /\ configs = [c \in ConfigIdSet |-> MySQLConfig]
  /\ connections = ConfigIds
  /\ initPc = "done"
  /\ lastError = [c \in ConfigIdSet |-> IF isConnected[c] THEN NoError ELSE <<"connect", 1>>]
  /\ currentDatabase = IF connectedIds = <<>> THEN NoDatabase ELSE connectedIds[1]
  /\ pool = [c \in ConfigIdSet |-> TRUE]
  /\ task = [c \in ConfigIdSet |-> Idle]
  /\ calls = [c \in ConfigIdSet |-> 1]
  /\ waits = [c \in ConfigIdSet |-> <<>>]
  /\ answers = [c \in ConfigIdSet |-> <<isConnected[c]>>]
  /\ ops = 0
  /\ lastCall = [op |-> "none", id |-> NoDatabase, result |-> "none"]
  /\ now = 0
  /\ LET sec == logEvents([events |-> <<>>, metrics |-> (GlobalId :> ZeroMetrics)],
                          initEvents(ConfigIds, isConnected))
     IN events = sec.events /\ metrics = sec.metrics
  /\ q = NoQuery
  /\ queries = 0

NextPool ==
  \/ \E op \in {"connect", "disconnect", "reconnect"} : PoolCall(op)
  \/ \E k \in 1..MaxPoolOps, ok \in BOOLEAN : PoolEnded(k, ok)
  \/ \E k \in 1..MaxPoolOps, ok \in BOOLEAN : PoolPinged(k, ok)

SpecPool == InitPool /\ [][NextPool]_vars

\* C30: whatever calls overlap on the adapter, every pool it created is the
\* adapter's current pool or has been ended.
C30_NoOrphanedSession ==
  \A i \in 1..Len(created) : created[i] = "open" => \E c \in ConfigIdSet : poolOf[c] = i

\* As long as no call was made while another one was in flight, every pool
\* the adapter created is its current pool or has been ended.
Overlapped == \E k \in 1..Len(inFlight) : inFlight[k].overlaps

C30_NoOrphanSequential == Overlapped \/ C30_NoOrphanedSession

\* ------------------------------------- PostgreSQLConnection placeholders
\* Longest statement tried, in characters.
MaxSqlLen == 4
\* query() calls made on the adapter in one run.
MaxPgOps == 1

\* The characters statements are made of: the placeholder mark, the quote
\* that delimits a string literal, and any other character.
SqlChars == {"?", "'", "a"}

\* The text `$${paramIndex}` for paramIndex = 1, 2, ...
Dollar == <<"$1", "$2", "$3", "$4", "$5", "$6", "$7", "$8", "$9">>

\* sql.replace(/\?/g, () => `$${paramIndex++}`) from paramIndex on: every
\* "?" of the text, wherever it stands, becomes the next numbered mark.
RECURSIVE replaceFrom(_, _)
replaceFrom(sql, paramIndex) ==
  IF sql = <<>> THEN <<>>
  ELSE IF Head(sql) = "?"
  THEN <<Dollar[paramIndex]>> \o replaceFrom(Tail(sql), paramIndex + 1)
  ELSE <<Head(sql)>> \o replaceFrom(Tail(sql), paramIndex)

\* PostgreSQLConnection.convertPlaceholders
convertPlaceholders(sql) == replaceFrom(sql, 1)

\* The parameter lists a caller passes.
ParamLists == {<<>>, <<"x">>, <<"x", "y">>}

\* A caller calls query(sql, params) on a PostgreSQLConnection that holds a
\* connection: the text and the parameters handed to connection.unsafe.
PgQuery(sql, params) ==
  /\ ops < MaxPgOps
  /\ ops' = ops + 1
  /\ lastCall' = [op |-> "pg.query", id |-> ConfigIds[1], result |-> "pending",
                  sql |-> sql, params |-> params,
                  pgSql |-> convertPlaceholders(sql), passed |-> params]
  /\ UNCHANGED <<configs, retryAttempts, connections, currentDatabase, initPc>>
  /\ UNCHANGED <<adapterVars, taskVars, secVars, now, queryVars>>

SqlTexts == UNION {[1..n -> SqlChars] : n \in 0..MaxSqlLen}

NextPlaceholders == \E sql \in SqlTexts, params \in ParamLists : PgQuery(sql, params)

SpecPlaceholders == InitRate /\ [][NextPlaceholders]_vars

\* Character i of sql stands inside a string literal: an odd number of
\* quotes precedes it.
Quoted(sql, i) == Cardinality({j \in 1..(i - 1) : sql[j] = "'"}) % 2 = 1

\* The placeholders of sql: its "?" outside string literals.
Placeholders(sql) == {i \in 1..Len(sql) : sql[i] = "?" /\ ~Quoted(sql, i)}

\* sql with its i-th placeholder, left to right, replaced by $i and every
\* other character as it is.
Translated(sql) ==
  [i \in 1..Len(sql) |->
     IF i \in Placeholders(sql)
     THEN Dollar[Cardinality({j \in Placeholders(sql) : j <= i})]
     ELSE sql[i]]

\* C31: query() hands the backend the statement with its i-th placeholder
\* replaced by $i and every other character unchanged, and the parameters
\* in their original order.
C31_PlaceholderTranslation ==
  lastCall.op = "pg.query" =>
    /\ lastCall.pgSql = Translated(lastCall.sql)
    /\ lastCall.passed = lastCall.params

\* The same for statements that have no "?" inside a string literal.
C31_TranslationUnquoted ==
  lastCall.op = "pg.query"
    /\ (\A i \in 1..Len(lastCall.sql) : lastCall.sql[i] = "?" => ~Quoted(lastCall.sql, i)) =>
    /\ lastCall.pgSql = Translated(lastCall.sql)
    /\ lastCall.passed = lastCall.params

\* ------------------------------------ SupabaseConnection filtered reads
\* Conditions in the WHERE clause of the statements tried.
MaxConditions == 2

\* A condition `column op rhs` of a WHERE clause: rhs is a quoted string
\* ('x'), a placeholder (?) or a bare number (5).
Conditions ==
  {[column |-> col, op |-> op, kind |-> rhs[1], value |-> rhs[2]] :
     col \in {"a", "b"}, op \in {"=", ">"},
     rhs \in {<<"quoted", "x">>, <<"param", "?">>, <<"number", "5">>}}

\* WHERE clauses: conditions joined by AND.
WhereClauses == UNION {[1..n -> Conditions] : n \in 1..MaxConditions}

\* The parameter lists passed with them.
RestParams == {<<>>, <<"p">>, <<"p", "r">>}

\* The first loop of parseWhereClause: every match of
\* /(\w+)\s*=\s*'([^']+)'/g sets conditions[column] = `eq.${value}`.
RECURSIVE quotedEqualities(_, _)
quotedEqualities(where, conditions) ==
  IF where = <<>> THEN conditions
  ELSE LET w == Head(where)
       IN quotedEqualities(Tail(where),
            IF w.op = "=" /\ w.kind = "quoted"
            THEN (w.column :> [op |-> "eq", value |-> w.value]) @@ conditions
            ELSE conditions)

\* The second loop: every match of /(\w+)\s*=\s*\?/g gets the next
\* parameter, as long as there is one.
RECURSIVE paramEqualities(_, _, _, _)
paramEqualities(where, params, paramIndex, conditions) ==
  IF where = <<>> THEN conditions
  ELSE LET w == Head(where)
       IN IF w.op = "=" /\ w.kind = "param" /\ paramIndex < Len(params)
          THEN paramEqualities(Tail(where), params, paramIndex + 1,
                 (w.column :> [op |-> "eq", value |-> params[paramIndex + 1]]) @@ conditions)
          ELSE paramEqualities(Tail(where), params, paramIndex, conditions)

\* SupabaseConnection.parseWhereClause(where, params): column -> filter.
parseWhereClause(where, params) ==
  LET quoted == quotedEqualities(where, <<>>)
  IN IF Len(params) > 0 THEN paramEqualities(where, params, 0, quoted) ELSE quoted

\* A caller calls query('SELECT * FROM t WHERE ...', params) on the
\* adapter c: without a url it throws; else the statement is parsed and the
\* GET request for the table is made with the filters parseWhereClause
\* found.
RestQuery(c, where, params) ==
  /\ ops < MaxAdapterOps
  /\ adapterClass(configs[c]) = "SupabaseConnection"
  /\ task[c] = Idle
  /\ ops' = ops + 1
  /\ lastCall' = [op |-> "supabase.query", id |-> c,
                  result |-> IF pool[c] THEN "requested" ELSE "threw",
                  where |-> where, params |-> params,
                  filters |-> IF pool[c] THEN parseWhereClause(where, params) ELSE <<>>]
  /\ UNCHANGED <<configs, retryAttempts, connections, currentDatabase, initPc>>
  /\ UNCHANGED <<adapterVars, taskVars, secVars, now, queryVars>>

\* SupabaseConnection adapters built for complete configs.
InitRest ==
  /\ ManagerConstructedWith({SupabaseConfig})
  /\ GateConstructed
  /\ retryAttempts = 1
  /\ rateLimits = <<>>
  /\ securityConfig = DefaultSecurityConfig

NextRest ==
  \/ \E c \in ConfigIdSet : SupabaseConnect(c)
  \/ \E c \in ConfigIdSet, ok \in BOOLEAN : SupabaseProbe(c, ok)
  \/ \E where \in WhereClauses, params \in RestParams : RestQuery(ConfigIds[1], where, params)

SpecRest == InitRest /\ [][NextRest]_vars

\* The value condition i of where compares its column with: the quoted
\* string or the number written, or the parameter of its placeholder ("" when
\* none was supplied).
ComparedWith(where, params, i) ==
  IF where[i].kind # "param" THEN where[i].value
  ELSE LET rank == Cardinality({j \in 1..i : where[j].kind = "param"})
       IN IF rank <= Len(params) THEN params[rank] ELSE ""

\* The request's filters enforce condition i of where.
Carries(filters, where, params, i) ==
  /\ where[i].op = "="
  /\ where[i].column \in DOMAIN filters
  /\ filters[where[i].column] = [op |-> "eq", value |-> ComparedWith(where, params, i)]
  /\ ComparedWith(where, params, i) # ""

\* C32: a filtered read that is mapped to a resource request carries a
\* filter for every condition of its WHERE clause (or the query fails).
C32_FilteredReads ==
  lastCall.op = "supabase.query" /\ lastCall.result = "requested" =>
    \A i \in 1..Len(lastCall.where) :
      Carries(lastCall.filters, lastCall.where, lastCall.params, i)

\* The same for the clauses the code handles: equalities with a quoted
\* string or a supplied parameter, each on a column of its own.
C32_EqualityFilters ==
  LET where == lastCall.where
  IN lastCall.op = "supabase.query" /\ lastCall.result = "requested"
       /\ (\A i \in 1..Len(where) :
             /\ where[i].op = "=" /\ where[i].kind \in {"quoted", "param"}
             /\ ComparedWith(where, lastCall.params, i) # ""
             /\ \A j \in 1..Len(where) : where[j].column = where[i].column => j = i) =>
       \A i \in 1..Len(where) : Carries(lastCall.filters, where, lastCall.params, i)

\* ------------------------------------------ the registry and the current id
\* A caller that got the manager before close() was called calls
\* switchDatabase(id) while close() is in flight or after it.
SwitchLate(id) ==
  /\ initPc \in {"closing", "closed"}
  /\ ops < MaxOps
  /\ ops' = ops + 1
  /\ lastCall' = [op |-> "switch", id |-> id, result |-> switchResult(id)]
  /\ IF switchResult(id) = "ok"
     THEN /\ currentDatabase' = id
          /\ LogAll(<<Ev("database_switched", id, "info")>>)
     ELSE UNCHANGED <<currentDatabase, events, metrics>>
  /\ UNCHANGED <<configs, retryAttempts, connections, initPc>>
  /\ UNCHANGED <<adapterVars, taskVars, rateLimits, now, queryVars>>

\* Every operation of the manager that writes the registry or the current
\* id or changes an adapter, on one instance from initialize() to close(),
\* for a manager built with retryAttempts 1 (no attempt is repeated).
NextRegistry ==
  \/ Initialize
  \/ InitializeFinish
  \/ \E c \in ConfigIdSet, ok \in BOOLEAN : ConnectPing(c, ok)
  \/ \E c \in ConfigIdSet, ok \in BOOLEAN : ReconnectPoolEnd(c, ok)
  \/ \E id \in IdSet : ReconnectDatabase(id)
  \/ PerformHealthChecks
  \/ \E c \in ConfigIdSet, ok \in BOOLEAN : HealthProbe(c, ok)
  \/ \E id \in IdSet : SwitchDatabase(id)
  \/ \E id \in IdSet : SwitchLate(id)
  \/ Close
  \/ \E c \in ConfigIdSet, ok \in BOOLEAN : ClosePoolEnd(c, ok)
  \/ CloseFinish

SpecRegistry == InitClose /\ [][NextRegistry]_vars

\* C33: in every state the current connection is absent or the id of a
\* connection in the registry.
C33_CurrentIsRegistered == currentDatabase = NoDatabase \/ currentDatabase \in Registered

\* The manager was switched to db2 and then closed: no current connection
\* and an empty registry.
C33_Witness ==
  /\ initPc = "closed"
  /\ currentDatabase = NoDatabase
  /\ connections = <<>>
  /\ \E i \in 1..Len(events) :
       events[i].event = "database_switched" /\ events[i].databaseId = "db2"

\* ------------------------------------- close() beside calls in flight
\* A manager built with retryAttempts 1 after initialize() of one MySQL
\* config and, for every other id, a config the factory rejects: the MySQL
\* adapter alone is registered and holds the pool its connect() created,
\* whether the ping on it succeeded or not; the factory's rejections were
\* logged before the ping was answered; no call is in flight.
InitLate ==
  /\ configs = [c \in ConfigIdSet |-> IF c = SqlAdapter THEN MySQLConfig ELSE NoHostConfig]
  /\ retryAttempts = 1
  /\ connections = <<SqlAdapter>>
  /\ initPc = "done"
  /\ isConnected \in [ConfigIdSet -> BOOLEAN]
  /\ \A c \in ConfigIdSet \ {SqlAdapter} : ~isConnected[c]
  /\ lastError = [c \in ConfigIdSet |->
                    IF c = SqlAdapter /\ ~isConnected[c] THEN <<"connect", 1>> ELSE NoError]
  /\ currentDatabase = IF connectedIds = <<>> THEN NoDatabase ELSE connectedIds[1]
  /\ pool = [c \in ConfigIdSet |-> c = SqlAdapter]
  /\ created = <<"open">>
  /\ poolOf = [c \in ConfigIdSet |-> IF c = SqlAdapter THEN 1 ELSE 0]
  /\ inFlight = <<>>
  /\ healthTimers = startHealthChecks(0)
  /\ singleton = NoSingleton
  /\ appName = [c \in ConfigIdSet |-> ""]
  /\ appInstances = <<>>
  /\ task = [c \in ConfigIdSet |-> Idle]
  /\ calls = [c \in ConfigIdSet |-> IF c = SqlAdapter THEN 1 ELSE 0]
  /\ waits = [c \in ConfigIdSet |-> <<>>]
  /\ answers = [c \in ConfigIdSet |-> IF c = SqlAdapter THEN <<isConnected[c]>> ELSE <<>>]
  /\ ops = 0
  /\ lastCall = [op |-> "none", id |-> NoDatabase, result |-> "none"]
  /\ now = 0
  /\ LET sec == logEvents([events |-> <<>>, metrics |-> (GlobalId :> ZeroMetrics)],
                          initEvents(Tail(ConfigIds), isConnected)
                            \o initEvents(<<SqlAdapter>>, isConnected))
     IN events = sec.events /\ metrics = sec.metrics
  /\ rateLimits = <<>>
  /\ securityConfig = DefaultSecurityConfig
  /\ q = NoQuery
  /\ queries = 0

\* The caller calls close() whatever calls are in flight on the adapter, up
\* to await Promise.allSettled(closePromises): disconnect() is entered for
\* the registered adapter.
LateClose ==
  /\ initPc = "done"
  /\ Registered = {SqlAdapter}
  /\ initPc' = "closing"
  /\ lastCall' = [op |-> "close", id |-> NoDatabase, result |-> "pending"]
  /\ LET c == SqlAdapter
         S == disconnectEnter(PoolLocal(c, NewCall("close")), c)
     IN /\ isConnected' = [isConnected EXCEPT ![c] = S.ic]
        /\ lastError' = [lastError EXCEPT ![c] = S.le]
        /\ pool' = [pool EXCEPT ![c] = S.cur # 0]
        /\ poolOf' = [poolOf EXCEPT ![c] = S.cur]
        /\ created' = S.created
        /\ inFlight' = Append(inFlight, S.call)
        /\ UNCHANGED <<healthTimers, singleton>>
        /\ LogAll(S.log)
  /\ UNCHANGED <<configs, retryAttempts, connections, currentDatabase, ops, appName,
                 appInstances, taskVars, rateLimits, now, queryVars>>

\* close() after Promise.allSettled: the disconnect() it called has returned
\* or thrown; the registry is cleared.
LateCloseFinish ==
  /\ \A k \in 1..Len(inFlight) :
       inFlight[k].op = "close" => inFlight[k].pc \in {"returned", "threw"}
  /\ CloseFinish

NextLate ==
  \/ PoolCall("reconnect")
  \/ \E k \in 1..(MaxPoolOps + 1), ok \in BOOLEAN : PoolEnded(k, ok)
  \/ \E k \in 1..(MaxPoolOps + 1), ok \in BOOLEAN : PoolPinged(k, ok)
  \/ LateClose
  \/ LateCloseFinish

SpecLate == InitLate /\ [][NextLate]_vars

\* The close() call, once made.
CloseCall == inFlight[CHOOSE k \in 1..Len(inFlight) : inFlight[k].op = "close"]

\* C34: once close() has completed no adapter of the manager is connected,
\* and none becomes connected later, also when a reconnect was in flight
\* when close() was called.
C34_NothingConnectsAfterClose ==
  initPc = "closed" => \A c \in ConfigIdSet : ~isConnected[c]

\* close() called with no call in flight, whose pool.end() resolved, leaves
\* no adapter connected.
C34_QuietClose ==
  (initPc = "closed" /\ ~CloseCall.overlaps /\ CloseCall.pc = "returned") =>
    \A c \in ConfigIdSet : ~isConnected[c]

\* close() has completed, its disconnect() returned, and the adapter is
\* connected by the reconnect that was in flight.
C34_LateConnect ==
  /\ initPc = "closed"
  /\ CloseCall.pc = "returned"
  /\ isConnected[SqlAdapter]
  /\ events[Len(events)].event = "connection_reconnected"

\* ------------------------------------------------ the health-check timer
\* initialize(configs) called again on a manager at rest, initialized or
\* closed, up to await Promise.allSettled(initPromises): the factory builds
\* a new adapter for every id, which replaces the registered one.
InitializeAgain ==
  /\ initPc \in {"done", "closed"}
  /\ \A c \in ConfigIdSet : task[c] = Idle
  /\ ops < MaxOps
  /\ ops' = ops + 1
  /\ LET new(c) == [Local(c) EXCEPT !.ic = FALSE, !.le = NoError, !.pool = FALSE]
         F == [c \in ConfigIdSet |->
                 IF createConnection(configs[c]) = ""
                 THEN connectWithRetry(new(c), c, "init")
                 ELSE [Local(c) EXCEPT
                         !.log = <<Ev("connection_initialization_failed", c, "error")>>]]
     IN ApplyAll(F, ConfigIds)
  /\ connections' = IF connections = <<>> THEN registeredBy(ConfigIds) ELSE connections
  /\ initPc' = "running"
  /\ lastCall' = [op |-> "initialize", id |-> NoDatabase, result |-> "pending"]
  /\ UNCHANGED <<configs, retryAttempts, currentDatabase, rateLimits, now, queryVars>>

NextTimer ==
  \/ Initialize
  \/ InitializeAgain
  \/ InitializeFinish
  \/ \E c \in ConfigIdSet, ok \in BOOLEAN : ConnectPing(c, ok)
  \/ Close
  \/ \E c \in ConfigIdSet, ok \in BOOLEAN : ClosePoolEnd(c, ok)
  \/ CloseFinish

SpecTimer == InitClose /\ [][NextTimer]_vars

\* C35: the manager has at most one health-check timer scheduled at any
\* time, also after initialize() was called more than once, and none after
\* close() has completed.
C35_SingleHealthTimer ==
  /\ healthTimers <= 1
  /\ initPc = "closed" => healthTimers = 0

\* Every initialize() that completes schedules one more timer, and nothing
\* else changes the number of timers scheduled.
C35_TimerPerInitialize ==
  [][healthTimers' = IF initPc = "running" /\ initPc' = "done"
                     THEN healthTimers + 1 ELSE healthTimers]_vars

\* ------------------------------------------------- getDatabaseManager()
\* Calls of getDatabaseManager() and close() made in one run.
MaxSingletonCalls == 4

\* A call of op made now: epoch is the number of close() calls made before
\* it, overlaps tells whether another call was at an await when it was made.
SingletonCall(op, pc, m) ==
  [op |-> op, pc |-> pc, m |-> m, epoch |-> singleton.closes,
   overlaps |-> \E k \in 1..Len(singleton.calls) :
                  singleton.calls[k].pc \in {"creating", "closing"}]

\* getDatabaseManager(), directly or from a wrapper method, up to its first
\* await: with _databaseManager set it returns it; otherwise
\* createDatabaseManager() makes a manager and awaits its initialize().
GetDatabaseManager ==
  /\ Len(singleton.calls) < MaxSingletonCalls
  /\ singleton' =
       IF singleton.databaseManager # 0
       THEN [singleton EXCEPT
               !.calls = Append(@, SingletonCall("get", "returned", singleton.databaseManager))]
       ELSE [singleton EXCEPT
               !.managers = Append(@, [state |-> "initializing", epoch |-> singleton.closes]),
               !.calls = Append(@, SingletonCall("get", "creating",
                                                 Len(singleton.managers) + 1))]
  /\ UNCHANGED <<mgrVars, isConnected, lastError, pool, appName, appInstances, created, poolOf,
                 inFlight, healthTimers, taskVars, secVars, now, queryVars>>

\* The initialize() call k awaits has resolved: the manager is assigned to
\* _databaseManager and returned.  Or it has thrown (no configuration):
\* getDatabaseManager() rejects and _databaseManager is left as it is.
CreateSettled(k, ok) ==
  /\ k \in 1..Len(singleton.calls)
  /\ singleton.calls[k].pc = "creating"
  /\ LET m == singleton.calls[k].m
     IN singleton' =
          IF ok
          THEN [singleton EXCEPT !.managers[m].state = "initialized",
                                 !.databaseManager = m,
                                 !.calls[k].pc = "returned"]
          ELSE [singleton EXCEPT !.managers[m].state = "failed",
                                 !.calls[k].pc = "threw"]
  /\ UNCHANGED <<mgrVars, isConnected, lastError, pool, appName, appInstances, created, poolOf,
                 inFlight, healthTimers, taskVars, secVars, now, queryVars>>

\* databaseManager.close() up to its first await: with _databaseManager
\* set, its close() is awaited.
SingletonClose ==
  /\ Len(singleton.calls) < MaxSingletonCalls
  /\ singleton' =
       [singleton EXCEPT
          !.closes = @ + 1,
          !.calls = Append(@, IF singleton.databaseManager # 0
                              THEN SingletonCall("close", "closing", singleton.databaseManager)
                              ELSE SingletonCall("close", "returned", 0))]
  /\ UNCHANGED <<mgrVars, isConnected, lastError, pool, appName, appInstances, created, poolOf,
                 inFlight, healthTimers, taskVars, secVars, now, queryVars>>

\* The manager's close() call k awaits has resolved (it never rejects):
\* _databaseManager = null.
SingletonCloseSettled(k) ==
  /\ k \in 1..Len(singleton.calls)
  /\ singleton.calls[k].pc = "closing"
  /\ singleton' = [singleton EXCEPT !.managers[singleton.calls[k].m].state = "closed",
                                    !.databaseManager = 0,
                                    !.calls[k].pc = "returned"]
  /\ UNCHANGED <<mgrVars, isConnected, lastError, pool, appName, appInstances, created, poolOf,
                 inFlight, healthTimers, taskVars, secVars, now, queryVars>>

\* The module of getDatabaseManager just loaded, with one MySQL config per
\* id in the configuration.
InitSingleton ==
  /\ ManagerConstructedWith({MySQLConfig})
  /\ GateConstructed
  /\ retryAttempts = MaxRetryAttempts
  /\ rateLimits = <<>>
  /\ securityConfig = DefaultSecurityConfig

NextSingleton ==
  \/ GetDatabaseManager
  \/ \E k \in 1..MaxSingletonCalls, ok \in BOOLEAN : CreateSettled(k, ok)
  \/ SingletonClose
  \/ \E k \in 1..MaxSingletonCalls : SingletonCloseSettled(k)

SpecSingleton == InitSingleton /\ [][NextSingleton]_vars

\* The managers whose initialize() resolved.
Initialized == {m \in 1..Len(singleton.managers) :
                  singleton.managers[m].state \in {"initialized", "closed"}}

\* The getDatabaseManager() calls that returned a manager.
Received == {k \in 1..Len(singleton.calls) :
               singleton.calls[k].op = "get" /\ singleton.calls[k].pc = "returned"}

SingleInstance(ks) ==
  /\ \A m, n \in Initialized :
       singleton.managers[m].epoch = singleton.managers[n].epoch => m = n
  /\ \A j, k \in ks :
       singleton.calls[j].epoch = singleton.calls[k].epoch =>
         singleton.calls[j].m = singleton.calls[k].m

\* C36: whatever getDatabaseManager() calls overlap, at most one manager is
\* created and initialized between two close() calls, and all callers in
\* between receive that instance.
C36_SingleManagerInstance == SingleInstance(Received)

\* As long as no call was made while another one was at its await, at most
\* one manager is initialized between two close() calls and all callers in
\* between receive it.
C36_SingleInstanceSequential ==
  (\A k \in 1..Len(singleton.calls) : ~singleton.calls[k].overlaps) => SingleInstance(Received)

\* Two overlapping getDatabaseManager() calls have returned two managers.
C36_TwoInstances ==
  \E j, k \in Received :
    /\ singleton.calls[j].epoch = singleton.calls[k].epoch
    /\ singleton.calls[j].m # singleton.calls[k].m
    /\ singleton.closes = 0

\* ------------------------------------------------------ getRecentEvents
\* Events in the log when the calls start, and the largest limit asked for.
MaxLogged == 3
MaxLimit == 4

RecentLimits == 0..MaxLimit

\* A caller (the security-events tool) calls getRecentEvents(limit).
GetRecentEvents(limit) ==
  /\ ops < MaxGateOps
  /\ ops' = ops + 1
  /\ lastCall' = [op |-> "getRecentEvents", id |-> NoDatabase, limit |-> limit,
                  result |-> getRecentEvents(events, limit)]
  /\ UNCHANGED <<configs, retryAttempts, connections, currentDatabase, initPc>>
  /\ UNCHANGED <<adapterVars, taskVars, secVars, now, queryVars>>

\* The securityManager singleton at GateStart with up to MaxLogged events
\* logged before, beside a manager just constructed.
InitRecent ==
  /\ ManagerConstructedWith({MySQLConfig})
  /\ now = GateStart
  /\ retryAttempts = 1
  /\ securityConfig = DefaultSecurityConfig
  /\ rateLimits = <<>>
  /\ \E n \in 0..MaxLogged :
       /\ events = Block("info", n, 0)
       /\ metrics = priorMetrics(events)

NextRecent ==
  \/ \E e \in GateEvents : LogEvent(e)
  \/ \E limit \in RecentLimits : GetRecentEvents(limit)

SpecRecent == InitRecent /\ [][NextRecent]_vars

\* The n most recently logged events, newest first.
Newest(n) == [i \in 1..n |-> events[Len(events) + 1 - i]]

\* getRecentEvents(limit) is called and returns the newest
\* min(limit, number of logged events) events, newest first, and leaves
\* the log unchanged.
RecentReturned(limit) ==
  (GateCall("getRecentEvents") /\ lastCall'.limit = limit) =>
    /\ lastCall'.result = Newest(Min(limit, Len(events)))
    /\ events' = events

\* C37: for every limit >= 0 and every log, getRecentEvents(limit) returns
\* exactly min(limit, number of logged events) events, the most recently
\* logged ones, newest first, and leaves the log unchanged.
C37_RecentEventsBound == [][\A limit \in RecentLimits : RecentReturned(limit)]_vars

\* For every limit >= 1 and every log, getRecentEvents(limit) returns
\* exactly min(limit, number of logged events) events, the most recently
\* logged ones, newest first, and leaves the log unchanged.
C37_RecentPositiveLimit == [][\A limit \in RecentLimits \ {0} : RecentReturned(limit)]_vars

\* ------------------------------- every operation and the metric counters
\* The caller calls testConnection(id): an unknown id throws; without a
\* pool the adapter's testConnection() returns false at once and the test
\* is logged; else its ping is in flight.
TestConnection(id) ==
  /\ initPc = "done"
  /\ ops < MaxOps
  /\ ops' = ops + 1
  /\ IF id \notin Registered
     THEN /\ lastCall' = [op |-> "testConnection", id |-> id, result |-> "NotFound"]
          /\ UNCHANGED <<adapterVars, taskVars, events, metrics>>
     ELSE /\ task[id] = Idle
          /\ IF pool[id]
             THEN /\ lastCall' = [op |-> "testConnection", id |-> id, result |-> "pending"]
                  /\ Apply(id, [Local(id) EXCEPT
                                  !.task = [kind |-> "test", pc |-> "tping", attempt |-> 0]])
             ELSE /\ lastCall' = [op |-> "testConnection", id |-> id, result |-> "false"]
                  /\ Apply(id, [Local(id) EXCEPT
                                  !.log = <<Ev("connection_test", id, "info")>>])
  /\ UNCHANGED <<configs, retryAttempts, connections, currentDatabase, initPc, rateLimits, now,
                 queryVars>>

\* The ping of the adapter's testConnection() has resolved or rejected:
\* the adapter records the outcome, the manager logs the test and returns
\* the boolean.
TestConnectionProbe(c, ok) ==
  /\ task[c].pc = "tping"
  /\ Apply(c, [testConnection(Local(c), ok) EXCEPT
                 !.task = Idle, !.log = <<Ev("connection_test", c, "info")>>])
  /\ lastCall' = [op |-> "testConnection", id |-> c, result |-> IF ok THEN "true" ELSE "false"]
  /\ UNCHANGED <<configs, retryAttempts, connections, currentDatabase, initPc, ops, rateLimits,
                 now, queryVars>>

\* The statements queried: one that runs, one the policy blocks and one the
\* validation finds suspicious.
CounterStatements == {SelectPlain, DropTable, UnionSelect}

\* Every operation of the manager on one instance.
NextCounters ==
  \/ Initialize
  \/ InitializeFinish
  \/ \E c \in ConfigIdSet, ok \in BOOLEAN : ConnectPing(c, ok)
  \/ \E c \in ConfigIdSet, ok \in BOOLEAN : ReconnectPoolEnd(c, ok)
  \/ \E id \in IdSet : ReconnectDatabase(id)
  \/ PerformHealthChecks
  \/ \E c \in ConfigIdSet, ok \in BOOLEAN : HealthProbe(c, ok)
  \/ \E id \in IdSet : TestConnection(id)
  \/ \E c \in ConfigIdSet, ok \in BOOLEAN : TestConnectionProbe(c, ok)
  \/ TestAllConnections
  \/ \E c \in ConfigIdSet, ok \in BOOLEAN : TestAllProbe(c, ok)
  \/ \E id \in IdSet : SwitchDatabase(id)
  \/ \E sql \in CounterStatements, id \in IdSet \cup {NoDatabase} : Query(sql, id)
  \/ \E n \in RowCounts : QueryReply(n)
  \/ QueryError
  \/ Close
  \/ \E c \in ConfigIdSet, ok \in BOOLEAN : ClosePoolEnd(c, ok)
  \/ CloseFinish

\* A manager built with retryAttempts 1 for one MySQL config and, for every
\* other id, a config the factory rejects.
InitCounters ==
  /\ Constructed
  /\ configs = [c \in ConfigIdSet |-> IF c = SqlAdapter THEN MySQLConfig ELSE NoHostConfig]
  /\ retryAttempts = 1
  /\ rateLimits = <<>>
  /\ securityConfig = DefaultSecurityConfig

SpecCounters == InitCounters /\ [][NextCounters]_vars

\* The kinds of event updateMetrics counts as connection attempts,
\* connection failures and suspicious activity.
ConnectionKinds == {"connection_success", "connection_failed", "suspicious_activity"}

\* C38: over any sequence of operations of the manager no event of kind
\* connection_success, connection_failed or suspicious_activity is logged,
\* and the connection-attempt, connection-failure and suspicious-activity
\* counters of every backend and of the global metrics stay at 0.
C38_UnusedCounters ==
  /\ \A i \in 1..Len(events) : events[i].event \notin ConnectionKinds
  /\ \A id \in DOMAIN metrics :
       /\ metrics[id].totalConnections = 0
       /\ metrics[id].failedConnections = 0
       /\ metrics[id].suspiciousActivity = 0

\* A manager that was initialized, ran a query and was tested and closed:
\* events were logged for a backend and only its query counter moved.
C38_Witness ==
  /\ initPc = "closed"
  /\ \E i \in 1..Len(events) : events[i].event = "connection_initialized"
  /\ \E i \in 1..Len(events) : events[i].event = "connection_test"
  /\ \E id \in DOMAIN metrics \ {GlobalId} : metrics[id].queryCount = 1
  /\ metrics[GlobalId].queryCount = 1

\* ------------------------------------------------ the probe and the flag
\* A caller calls testConnection() on the adapter, whatever other calls are
\* in flight on it: without a pool it returns false at once, else the ping
\* is awaited.
PoolTest ==
  /\ initPc = "done"
  /\ SqlAdapter \in Registered
  /\ ops < MaxPoolOps
  /\ ops' = ops + 1
  /\ LET c == SqlAdapter
         S == PoolLocal(c, [NewCall("testConnection") EXCEPT !.where = "testConnection"])
     IN IF S.cur = 0
        THEN /\ ApplyPool(c, Len(inFlight) + 1, [S EXCEPT !.call.pc = "false"])
             /\ lastCall' = [op |-> "testConnection", id |-> c, result |-> "false"]
        ELSE /\ ApplyPool(c, Len(inFlight) + 1,
                          [S EXCEPT !.call.pc = "probe", !.call.p = S.cur])
             /\ lastCall' = [op |-> "testConnection", id |-> c, result |-> "pending"]

\* The ping testConnection() call k awaits has resolved (setConnected(true),
\* return true) or rejected (the catch records the error and returns false).
PoolProbed(k, ok) ==
  /\ k \in 1..Len(inFlight)
  /\ inFlight[k].pc = "probe"
  /\ LET c == SqlAdapter
         S == PoolLocal(c, inFlight[k])
         E == <<"testConnection", 0>>
     IN ApplyPool(c, k,
                  IF ok THEN [setConnected(S, TRUE, NoError) EXCEPT !.call.pc = "true"]
                  ELSE [setConnected(logError(S, E), FALSE, E) EXCEPT !.call.pc = "false"])
  /\ UNCHANGED <<ops, lastCall>>

NextProbe ==
  \/ \E op \in {"connect", "disconnect"} : PoolCall(op)
  \/ \E k \in 1..MaxPoolOps, ok \in BOOLEAN : PoolEnded(k, ok)
  \/ \E k \in 1..MaxPoolOps, ok \in BOOLEAN : PoolPinged(k, ok)
  \/ PoolTest
  \/ \E k \in 1..MaxPoolOps, ok \in BOOLEAN : PoolProbed(k, ok)

SpecProbe == InitPool /\ [][NextProbe]_vars

\* The step in which a testConnection() call returns the boolean r.
TestReturns(r) ==
  \E k \in 1..Len(inFlight') :
    /\ inFlight'[k].op = "testConnection"
    /\ inFlight'[k].pc = (IF r THEN "true" ELSE "false")
    /\ k > Len(inFlight) \/ inFlight[k].pc = "probe"

\* C39: when testConnection() returns, the adapter's isConnected flag
\* equals the boolean returned: a successful probe marks the adapter
\* connected, also when its connect() had failed, and a failed probe has
\* marked it not connected.
C39_ProbeEqualsState ==
  [][\A r \in BOOLEAN : TestReturns(r) => isConnected'[SqlAdapter] = r]_vars

\* The same as long as no call was made on the adapter while another one
\* was in flight.
C39_ProbeSequential ==
  [][\A r \in BOOLEAN :
       (TestReturns(r) /\ \A k \in 1..Len(inFlight') : ~inFlight'[k].overlaps) =>
         isConnected'[SqlAdapter] = r]_vars

\* The same for the adapters of every class, each called when no call is
\* in flight on it: when testConnection() has returned and nothing else was
\* called since, isConnected equals the boolean returned.
C39_ProbeOfEveryClass ==
  (lastCall.op = "testConnection" /\ lastCall.result \in {"true", "false"}) =>
    isConnected[lastCall.id] = (lastCall.result = "true")

\* connect() and disconnect() overlapped: disconnect() dropped the pool
\* connect() had just created, the ping on that pool (still open) then
\* marked the adapter connected, and testConnection(), finding no pool,
\* has returned false without touching the flag.
C39_FalseWhileConnected ==
  /\ lastCall.op = "testConnection" /\ lastCall.result = "false"
  /\ isConnected[SqlAdapter] /\ poolOf[SqlAdapter] = 0
  /\ Len(inFlight) = 3
  /\ inFlight[1].op = "connect" /\ inFlight[2].op = "disconnect" /\ inFlight[3].pc = "false"
  /\ Len(created) = NumConfigs + 1 /\ created[NumConfigs + 1] = "open"
====
